---- MODULE Spec2Model ----
(***************************************************************************)
(* Model of Mdl_ast_builder (io/scene/mdl_elements/                        *)
(* mdl_elements_ast_builder.cpp): the rewriter from neuray expressions     *)
(* (constants, parameters, calls) to MDL AST expressions, including the    *)
(* MDL 1.X => MDL 1.LATEST call migrations done by transform_call.         *)
(*                                                                         *)
(* Strings the code parses (callee names, type names) are sequences of     *)
(* one-character strings; positions are 0-based as in std::string.         *)
(* Symbols the code only interns (argument names) are plain strings.       *)
(***************************************************************************)
EXTENDS Integers, Sequences, FiniteSets, TLC

VARIABLES
    m_tmp_idx,          \* Mdl_ast_builder::m_tmp_idx, its 32 bits read as a signed number
    m_param_map,        \* Mdl_ast_builder::m_param_map: expression id -> symbol
    m_args,             \* Mdl_ast_builder::m_args: the top-level argument list
    m_used_user_types,  \* Mdl_ast_builder::m_used_user_types
    mod_log,            \* messages sent to LOG::mod_log->error
    enable_assert,      \* whether ASSERT() is compiled in (debug build)
    status,             \* "running", or how the process ended
    last                \* the call in progress handed back to the caller

vars == <<m_tmp_idx, m_param_map, m_args, m_used_user_types, mod_log,
          enable_assert, status, last>>

----------------------------------------------------------------------------
(* Bounds of the model *)

MaxArgs == 5        \* longest argument list of a call handed to transform_call
MaxTmp == 1         \* get_temporary_symbol calls per session
MaxUsed == 2        \* entries of m_used_user_types
MaxLog == 1         \* messages in mod_log
MaxDepth == 6       \* nesting depth of transform_expr/transform_call
MaxSession == 2     \* bindings, recorded types, messages and temporaries together
MaxCallSession == 1 \* the same, of a session on which transform_call is entered directly
MaxTmpRun == 20     \* get_temporary_symbol calls of a run on either side of the wrap
MaxNameLen == 6
MaxArgsLen == 3     \* characters of a string given to create_qualified_name

----------------------------------------------------------------------------
(* std::string operations on character sequences *)

npos == -1

\* s.substr(pos, len)
substr(s, pos, len) == SubSeq(s, pos + 1, pos + len)

\* s.substr(pos)
substr_from(s, pos) == SubSeq(s, pos + 1, Len(s))

\* does pat occur in s at 0-based position p
occurs_at(s, pat, p) ==
    /\ p >= 0
    /\ p + Len(pat) <= Len(s)
    /\ \A k \in 1..Len(pat) : s[p + k] = pat[k]

\* s.find(pat, pos)
find(s, pat, pos) ==
    LET hits == { p \in pos..(Len(s) - Len(pat)) : occurs_at(s, pat, p) }
    IN IF hits = {} THEN npos
       ELSE CHOOSE p \in hits : \A q \in hits : p <= q

\* s.rfind(c)
rfind(s, c) ==
    LET hits == { p \in 0..(Len(s) - 1) : s[p + 1] = c }
    IN IF hits = {} THEN npos
       ELSE CHOOSE p \in hits : \A q \in hits : p >= q

\* s.erase(pos)
erase(s, pos) == SubSeq(s, 1, pos)

dag_unmangle(name) ==
    LET pos == find(name, <<"(">>, 0)
    IN IF pos # npos THEN erase(name, pos) ELSE name

remove_deprecated(name) ==
    LET pos == rfind(name, "$")
    IN IF pos # npos THEN erase(name, pos) ELSE name

----------------------------------------------------------------------------
(* Name factory: simple and qualified names *)

\* a qualified name: the absolute flag and the ordered components
create_simple_name(name) == name

RECURSIVE split_components(_, _, _)
split_components(name, pos, comps) ==
    LET p == find(name, <<":", ":">>, pos)
    IN IF p = npos
       THEN [pos |-> pos, comps |-> comps]
       ELSE split_components(name, p + 2,
                Append(comps, create_simple_name(substr(name, pos, p - pos))))

create_qualified_name_m(name) ==
    LET abs == Len(name) >= 2 /\ name[1] = ":" /\ name[2] = ":"
        r   == split_components(name, IF abs THEN 2 ELSE 0, <<>>)
    IN [absolute   |-> abs,
        components |-> Append(r.comps, create_simple_name(substr_from(name, r.pos)))]

create_qualified_name(name) ==
    LET abs == Len(name) > 2 /\ name[1] = ":" /\ name[2] = ":"
        r   == split_components(name, IF abs THEN 2 ELSE 0, <<>>)
    IN [absolute   |-> abs,
        components |-> Append(r.comps, create_simple_name(substr_from(name, r.pos)))]

create_scope_name(name) ==
    LET abs == Len(name) > 2 /\ name[1] = ":" /\ name[2] = ":"
        r   == split_components(name, IF abs THEN 2 ELSE 0, <<>>)
    IN [absolute |-> abs, components |-> r.comps]

\* m_nf.create_qualified_name() followed by add_component(sname)
qname_of_symbol(sym) == [absolute |-> FALSE, components |-> <<sym>>]

----------------------------------------------------------------------------
(* Types.  Source (neuray) types are records with a kind field; target     *)
(* (mi::mdl) types are records with a tk field.                            *)

NoType == [tk |-> "none"]

T_int == [kind |-> "int"]
T_float == [kind |-> "float"]
T_color == [kind |-> "color"]
T_vector(e, n) == [kind |-> "vector", elem |-> e, size |-> n]
T_bsdf == [kind |-> "bsdf"]
T_light_profile == [kind |-> "light_profile"]
T_bsdf_measurement == [kind |-> "bsdf_measurement"]
T_texture(shape) == [kind |-> "texture", shape |-> shape]
T_struct(sid, sym) == [kind |-> "struct", sid |-> sid, symbol |-> sym]
T_enum(eid, sym, values) ==
    [kind |-> "enum", eid |-> eid, symbol |-> sym, values |-> values]
T_array_imm(e, n) == [kind |-> "array", elem |-> e, immediate |-> TRUE, size |-> n]
T_array_def(e, s) == [kind |-> "array", elem |-> e, immediate |-> FALSE, dsize |-> s]
T_alias(b, m) == [kind |-> "alias", base |-> b, mods |-> m]

RECURSIVE skip_all_type_aliases(_)
skip_all_type_aliases(t) ==
    IF t.kind = "alias" THEN skip_all_type_aliases(t.base) ELSE t

\* mi::mdl::is_tex_2d on the type carried by an AST expression
is_tex_2d(t) == t.tk = "texture" /\ t.shape = "2d"

\* Mdl_ast_builder::transform_type; failed is the ASSERT of the function
RECURSIVE transform_type(_)
transform_type(type) ==
    CASE type.kind \in {"alias", "enum", "array", "struct"} ->
            [type |-> NoType, failed |-> TRUE]
      [] type.kind \in {"bool", "int", "float", "double", "string", "color",
                        "light_profile", "bsdf_measurement", "bsdf", "edf", "vdf"} ->
            [type |-> [tk |-> type.kind], failed |-> FALSE]
      [] type.kind \in {"vector", "matrix"} ->
            LET e == transform_type(type.elem)
            IN [type |-> [tk |-> type.kind, elem |-> e.type, size |-> type.size],
                failed |-> e.failed]
      [] type.kind = "texture" ->
            IF type.shape \in {"2d", "3d", "cube", "ptex"}
            THEN [type |-> [tk |-> "texture", shape |-> type.shape], failed |-> FALSE]
            ELSE [type |-> [tk |-> "error"], failed |-> TRUE]
      [] OTHER -> [type |-> [tk |-> "error"], failed |-> TRUE]

\* IType::get_all_type_modifiers: the modifiers of the whole alias chain
RECURSIVE get_all_type_modifiers(_)
get_all_type_modifiers(t) ==
    IF t.kind = "alias" THEN t.mods \cup get_all_type_modifiers(t.base) ELSE {}

\* snprintf("%u") of a small unsigned number
unsigned_str(n) ==
    <<<<"0">>, <<"1">>, <<"2">>, <<"3">>, <<"4">>, <<"5">>, <<"6">>, <<"7">>,
      <<"8">>, <<"9">>>>[n + 1]

\* get_type_name
RECURSIVE get_type_name(_)
get_type_name(type) ==
    CASE type.kind = "bool" -> <<"b", "o", "o", "l">>
      [] type.kind = "int" -> <<"i", "n", "t">>
      [] type.kind = "enum" -> type.symbol
      [] type.kind = "float" -> <<"f", "l", "o", "a", "t">>
      [] type.kind = "double" -> <<"d", "o", "u", "b", "l", "e">>
      [] type.kind = "string" -> <<"s", "t", "r", "i", "n", "g">>
      [] type.kind = "light_profile" ->
            <<"l", "i", "g", "h", "t", "_", "p", "r", "o", "f", "i", "l", "e">>
      [] type.kind = "bsdf" -> <<"b", "s", "d", "f">>
      [] type.kind = "edf" -> <<"e", "d", "f">>
      [] type.kind = "vdf" -> <<"v", "d", "f">>
      [] type.kind = "vector" -> get_type_name(type.elem) \o unsigned_str(type.size)
      [] type.kind = "matrix" ->
            get_type_name(type.elem.elem) \o unsigned_str(type.size) \o <<"x">>
                \o unsigned_str(type.elem.size)
      [] type.kind = "color" -> <<"c", "o", "l", "o", "r">>
      [] type.kind = "struct" ->
            IF type.sid = "material"
            THEN <<"m", "a", "t", "e", "r", "i", "a", "l">>
            ELSE IF type.sid = "material_surface"
            THEN <<"m", "a", "t", "e", "r", "i", "a", "l", "_",
                   "s", "u", "r", "f", "a", "c", "e">>
            ELSE type.symbol
      [] type.kind = "texture" ->
            <<"t", "e", "x", "t", "u", "r", "e", "_">> \o
            (CASE type.shape = "2d" -> <<"2", "d">>
               [] type.shape = "3d" -> <<"3", "d">>
               [] type.shape = "cube" -> <<"c", "u", "b", "e">>
               [] OTHER -> <<"p", "t", "e", "x">>)
      [] type.kind = "bsdf_measurement" ->
            <<"b", "s", "d", "f", "_", "m", "e", "a", "s", "u", "r", "e", "m", "e", "n", "t">>
      [] type.kind = "array" ->
            get_type_name(type.elem) \o <<"[">> \o
            (IF type.immediate THEN unsigned_str(type.size) ELSE type.dsize) \o <<"]">>
      [] OTHER -> <<>>

S_sym == <<"S">>
E_sym == <<"m", ":", ":", "E">>

----------------------------------------------------------------------------
(* The object store seen through DB::Transaction: a fixed snapshot.        *)
(* Tag 0 is the invalid tag.                                               *)

C_Texture == "TEXTURE::Texture"
C_Image == "DBIMAGE::Image"
C_Lightprofile == "LIGHTPROFILE::Lightprofile"
C_Bsdf_measurement == "BSDFM::Bsdf_measurement"

Tags == 1..12

Store ==
    [t \in Tags |->
        CASE t = 1 -> [class_id |-> C_Texture, image |-> 2, gamma |-> "2.2",
                       filename |-> "", version |-> 3]
          [] t = 2 -> [class_id |-> C_Image, image |-> 0, gamma |-> "0.0",
                       filename |-> "wood.png", version |-> 5]
          [] t = 3 -> [class_id |-> C_Texture, image |-> 0, gamma |-> "1.0",
                       filename |-> "", version |-> 1]
          [] t = 4 -> [class_id |-> C_Lightprofile, image |-> 0, gamma |-> "0.0",
                       filename |-> "lamp.ies", version |-> 2]
          [] t = 5 -> [class_id |-> C_Bsdf_measurement, image |-> 0, gamma |-> "0.0",
                       filename |-> "", version |-> 4]
          [] t = 6 -> [class_id |-> C_Texture, image |-> 4, gamma |-> "1.0",
                       filename |-> "", version |-> 6]
          [] t = 7 -> [class_id |-> C_Texture, image |-> 2, gamma |-> "1.0000001",
                       filename |-> "", version |-> 7]
          [] t = 8 -> [class_id |-> C_Texture, image |-> 2, gamma |-> "1.0",
                       filename |-> "", version |-> 8]
          [] t = 9 -> [class_id |-> C_Lightprofile, image |-> 0, gamma |-> "0.0",
                       filename |-> "", version |-> 9]
          [] t = 10 -> [class_id |-> C_Bsdf_measurement, image |-> 0, gamma |-> "0.0",
                        filename |-> "m.mbsdf", version |-> 10]
          [] t = 11 -> [class_id |-> C_Texture, image |-> 0, gamma |-> "2.2",
                        filename |-> "", version |-> 11]
          [] OTHER -> [class_id |-> C_Texture, image |-> 4, gamma |-> "2.2",
                       filename |-> "", version |-> 12]]

\* DB::Transaction::get_class_id
get_class_id(tag) == IF tag \in Tags THEN Store[tag].class_id ELSE "none"

\* DB::Transaction::get_tag_version
get_tag_version(tag) == IF tag \in Tags THEN Store[tag].version ELSE 0

\* get_hash of mdl_elements_utilities: a function of the versions it is given
get_hash(versions) == <<"hash">> \o versions

----------------------------------------------------------------------------
(* The effects of one rewrite threaded through the recursion: the user     *)
(* types recorded, the messages logged, and how the rewrite ended.         *)
(* violated tells that an ASSERT has been reached, resumed that            *)
(* transform_expr has been entered after that.                             *)

\* ASSERT(M_SCENE, false): aborts when compiled in, a no-op otherwise
assert_failed(st) ==
    [st EXCEPT !.violated = TRUE,
               !.status = IF enable_assert THEN "aborted" ELSE @]

\* the entry of transform_expr
entered(st) == IF st.violated THEN [st EXCEPT !.resumed = TRUE] ELSE st

log_error(st, msg) == [st EXCEPT !.log = Append(@, msg)]

----------------------------------------------------------------------------
(* Expression factory and value factory of the owning module (mi::mdl)     *)

create_int(i) == [vk |-> "int", i |-> i, type |-> [tk |-> "int"]]
create_bool(b) == [vk |-> "bool", b |-> b, type |-> [tk |-> "bool"]]
create_float(f) == [vk |-> "float", f |-> f, type |-> [tk |-> "float"]]
create_double(f) == [vk |-> "double", f |-> f, type |-> [tk |-> "double"]]
create_string(str) == [vk |-> "string", s |-> str, type |-> [tk |-> "string"]]
create_invalid_ref(r_tp) == [vk |-> "invalid_ref", type |-> r_tp]
create_texture(t_tp, url, gamma, tag, hash) ==
    [vk |-> "texture", url |-> url, gamma |-> gamma, tag |-> tag, hash |-> hash,
     type |-> t_tp]
create_resource(vk, tp, url, tag, hash) ==
    [vk |-> vk, url |-> url, tag |-> tag, hash |-> hash, type |-> tp]

\* mi::mdl::create_int2_zero
create_int2_zero ==
    [vk |-> "vector", elems |-> <<create_int(0), create_int(0)>>,
     type |-> [tk |-> "vector", elem |-> [tk |-> "int"], size |-> 2]]

create_literal(v) == [ek |-> "literal", value |-> v, type |-> v.type]
create_invalid == [ek |-> "invalid", type |-> [tk |-> "error"]]
create_unary(op, arg) == [ek |-> "unary", op |-> op, arg |-> arg, type |-> NoType]
create_binary(op, l, r) ==
    [ek |-> "binary", op |-> op, left |-> l, right |-> r, type |-> NoType]
create_conditional(c, t, f) ==
    [ek |-> "conditional", cond |-> c, true_res |-> t, false_res |-> f,
     type |-> NoType]

\* m_nf.create_type_name(qname)
nf_create_type_name(qname) ==
    [qname |-> qname, qualifier |-> "none", array_size |-> <<>>,
     incomplete_array |-> FALSE, type |-> NoType]

create_reference(tn) == [ek |-> "reference", name |-> tn, type |-> NoType]

\* m_ef.create_call(ref) followed by the add_argument calls
create_call(ref, arguments) ==
    [ek |-> "call", callee |-> ref, args |-> arguments, type |-> NoType]

create_positional_argument(expr) == [ak |-> "positional", expr |-> expr]
create_named_argument(sname, expr) == [ak |-> "named", name |-> sname, expr |-> expr]

\* to_reference(qname, type)
to_reference_typed(qname, type) ==
    [ek |-> "reference", name |-> [nf_create_type_name(qname) EXCEPT !.type = type],
     type |-> type]

\* to_reference(qname): the type defaults to NULL and nothing is set
to_reference(qname) == create_reference(nf_create_type_name(qname))

\* to_reference(sym)
to_reference_sym(sym) == to_reference(qname_of_symbol(sym))

\* to_simple_name(name)
to_simple_name(name) == name

\* Mdl_ast_builder::create_type_name
RECURSIVE create_type_name(_)
create_type_name(t) ==
    LET modifiers == get_all_type_modifiers(t)
        type == skip_all_type_aliases(t)
        qual(old) == IF "uniform" \in modifiers THEN "uniform"
                     ELSE IF "varying" \in modifiers THEN "varying" ELSE old
    IN IF type.kind = "array"
       THEN LET tn == create_type_name(type.elem)
            IN [tn EXCEPT !.qualifier = qual(@),
                          !.array_size =
                              IF type.immediate
                              THEN <<create_literal(create_int(type.size))>>
                              ELSE <<to_reference(qname_of_symbol(type.dsize))>>]
       ELSE [nf_create_type_name(create_qualified_name(get_type_name(type)))
                EXCEPT !.qualifier = qual(@)]

----------------------------------------------------------------------------
(* Resource resolution *)

classify_gamma_m(gamma_override) ==
    IF gamma_override \in {"1.0", "1.0000001"} THEN "gamma_linear"
    ELSE IF gamma_override = "2.2" THEN "gamma_srgb"
    ELSE "gamma_default"

\* the comparison of texture->get_gamma() with 1.0f and 2.2f
classify_gamma(gamma_override) ==
    IF gamma_override = "1.0" THEN "gamma_linear"
    ELSE IF gamma_override = "2.2" THEN "gamma_srgb"
    ELSE "gamma_default"

\* get_texture_resource_name_and_gamma: the url, the gamma mode, the log
get_texture_resource_name_and_gamma_m(tag, st) ==
    IF get_class_id(tag) # C_Texture
    THEN [url |-> "", gamma |-> "gamma_default",
          st |-> log_error(st, <<"Incorrect type for texture resource", tag>>)]
    ELSE LET image_tag == Store[tag].image
         IN IF image_tag = 0
            THEN [url |-> "", gamma |-> classify_gamma(Store[tag].gamma), st |-> st]
            ELSE IF get_class_id(image_tag) # C_Image
            THEN [url |-> "", gamma |-> classify_gamma(Store[tag].gamma),
                  st |-> log_error(st, <<"Incorrect type for image resource", image_tag>>)]
            ELSE [url |-> Store[image_tag].filename,
                  gamma |-> classify_gamma(Store[tag].gamma),
                  st |-> st]

get_texture_resource_name_and_gamma(tag, st) ==
    IF get_class_id(tag) # C_Texture
    THEN [url |-> "", gamma |-> "gamma_default",
          st |-> log_error(st, <<"Incorrect type for texture resource", tag>>)]
    ELSE LET image_tag == Store[tag].image
         IN IF image_tag = 0
            THEN [url |-> "", gamma |-> "gamma_default", st |-> st]
            ELSE IF get_class_id(image_tag) # C_Image
            THEN [url |-> "", gamma |-> "gamma_default",
                  st |-> log_error(st, <<"Incorrect type for image resource", image_tag>>)]
            ELSE [url |-> Store[image_tag].filename,
                  gamma |-> classify_gamma(Store[tag].gamma),
                  st |-> st]

get_light_profile_resource_name(tag, st) ==
    IF get_class_id(tag) # C_Lightprofile
    THEN [url |-> "",
          st |-> log_error(st, <<"Incorrect type for light profile resource", tag>>)]
    ELSE [url |-> Store[tag].filename, st |-> st]

get_bsdf_measurement_resource_name(tag, st) ==
    IF get_class_id(tag) # C_Bsdf_measurement
    THEN [url |-> "",
          st |-> log_error(st, <<"Incorrect type for BSDF measurement resource", tag>>)]
    ELSE [url |-> Store[tag].filename, st |-> st]

\* Mdl_ast_builder::convert_enum_type
convert_enum_type(e_tp) ==
    CASE e_tp.eid = "user" ->
            [type |-> [tk |-> "enum", symbol |-> e_tp.symbol, values |-> e_tp.values],
             failed |-> FALSE]
      [] e_tp.eid \in {"tex_gamma_mode", "intensity_mode"} ->
            [type |-> [tk |-> "enum", predefined |-> e_tp.eid], failed |-> FALSE]
      [] OTHER -> [type |-> NoType, failed |-> TRUE]

----------------------------------------------------------------------------
(* Value materialization *)

gamma_reference_m(gamma) ==
    to_reference_typed(
        [absolute |-> TRUE,
         components |-> <<<<"t", "e", "x">>,
             <<"g", "a", "m", "m", "a", "_", "d", "e", "f", "a", "u", "l", "t">>>>],
        [tk |-> "enum", predefined |-> "tex_gamma_mode"])

\* the gamma argument of a texture constructor: ::tex::gamma_*
gamma_reference(gamma) ==
    to_reference_typed(
        [absolute |-> TRUE,
         components |-> <<<<"t", "e", "x">>,
             <<"g", "a", "m", "m", "a", "_">> \o
             (CASE gamma = "gamma_linear" -> <<"l", "i", "n", "e", "a", "r">>
                [] gamma = "gamma_srgb" -> <<"s", "r", "g", "b">>
                [] OTHER -> <<"d", "e", "f", "a", "u", "l", "t">>)>>],
        [tk |-> "enum", predefined |-> "tex_gamma_mode"])

\* transform_type under cast<>: the mapped type, the ASSERT applied
mapped_type(type, st) ==
    LET r == transform_type(type)
    IN [type |-> r.type, st |-> IF r.failed THEN assert_failed(st) ELSE st]

texture_hash_m(tag) == get_hash(<<get_tag_version(tag), 0>>)

\* the hash of a texture without a file: the versions of the texture tag and
\* of its image tag
texture_hash(tag) ==
    get_hash(<<get_tag_version(tag), get_tag_version(Store[tag].image)>>)

\* the hash of a light profile or bsdf measurement without a file
resource_hash(tag) == get_hash(<<get_tag_version(tag)>>)

RECURSIVE transform_value(_, _)
RECURSIVE transform_elements(_, _, _, _)

transform_elements_m(elems, i, acc, st) ==
    IF i > Len(elems) \/ st.status # "ok"
    THEN [args |-> acc, st |-> st]
    ELSE LET next(r) == transform_elements(elems, i + 1,
                            Append(acc, create_named_argument(<<"x">>, r.ast)), r.st)
         IN next(transform_value(elems[i], st))

\* the loops over v->get_value(i) of the compound and array cases
transform_elements(elems, i, acc, st) ==
    IF i > Len(elems) \/ st.status # "ok"
    THEN [args |-> acc, st |-> st]
    ELSE LET next(r) == transform_elements(elems, i + 1,
                            Append(acc, create_positional_argument(r.ast)), r.st)
         IN next(transform_value(elems[i], st))

\* Mdl_ast_builder::transform_value
transform_value(value, st) ==
    CASE value.kind = "bool" ->
            [ast |-> create_literal(create_bool(value.b)), st |-> st]
      [] value.kind = "int" ->
            [ast |-> create_literal(create_int(value.i)), st |-> st]
      [] value.kind = "enum" ->
            LET e_tp == value.type
                sname == create_simple_name(e_tp.values[value.index + 1].name)
                scope == create_scope_name(e_tp.symbol)
                qname == [scope EXCEPT !.components = Append(@, sname)]
                mdl_tp == convert_enum_type(e_tp)
            IN [ast |-> IF mdl_tp.failed THEN to_reference(qname)
                        ELSE to_reference_typed(qname, mdl_tp.type),
                st |-> IF mdl_tp.failed THEN assert_failed(st) ELSE st]
      [] value.kind = "float" ->
            [ast |-> create_literal(create_float(value.f)), st |-> st]
      [] value.kind = "double" ->
            [ast |-> create_literal(create_double(value.f)), st |-> st]
      [] value.kind = "string" ->
            [ast |-> create_literal(create_string(value.s)), st |-> st]
      [] value.kind \in {"vector", "matrix", "color", "struct"} ->
            LET ref == create_reference(create_type_name(value.type))
                r == transform_elements(value.elems, 1, <<>>, st)
            IN [ast |-> create_call(ref, r.args), st |-> r.st]
      [] value.kind = "array" ->
            LET tn == [create_type_name(value.type.elem)
                          EXCEPT !.incomplete_array = TRUE]
                r == transform_elements(value.elems, 1, <<>>, st)
            IN [ast |-> create_call(create_reference(tn), r.args), st |-> r.st]
      [] value.kind = "invalid_df" ->
            LET r_tp == mapped_type(value.type, st)
            IN [ast |-> create_literal(create_invalid_ref(r_tp.type)), st |-> r_tp.st]
      [] value.kind = "texture" ->
            LET tag == value.tag
                ref == create_reference(create_type_name(value.type))
            IN IF tag = 0 \/ get_class_id(tag) # C_Texture
               THEN LET r_tp == mapped_type(value.type, st)
                    IN [ast |-> create_literal(create_invalid_ref(r_tp.type)),
                        st |-> r_tp.st]
               ELSE LET res == get_texture_resource_name_and_gamma(tag, st)
                    IN IF res.url = ""
                       THEN LET t_tp == mapped_type(value.type, res.st)
                            IN [ast |-> create_literal(create_texture(
                                    t_tp.type, "", res.gamma, tag,
                                    texture_hash(tag))),
                                st |-> t_tp.st]
                       ELSE [ast |-> create_call(ref,
                                <<create_positional_argument(
                                      create_literal(create_string(res.url))),
                                  create_positional_argument(
                                      gamma_reference(res.gamma))>>),
                             st |-> res.st]
      [] value.kind \in {"light_profile", "bsdf_measurement"} ->
            LET tag == value.tag
                ref == create_reference(create_type_name(value.type))
            IN IF tag = 0
               THEN LET r_tp == mapped_type(value.type, st)
                    IN [ast |-> create_literal(create_invalid_ref(r_tp.type)),
                        st |-> r_tp.st]
               ELSE LET res == IF value.kind = "light_profile"
                               THEN get_light_profile_resource_name(tag, st)
                               ELSE get_bsdf_measurement_resource_name(tag, st)
                    IN IF res.url = ""
                       THEN LET tp == mapped_type(value.type, res.st)
                            IN [ast |-> create_literal(create_resource(
                                    value.kind, tp.type, "", tag,
                                    resource_hash(tag))),
                                st |-> tp.st]
                       ELSE [ast |-> create_call(ref,
                                <<create_positional_argument(
                                      create_literal(create_string(res.url)))>>),
                             st |-> res.st]
      [] OTHER -> [ast |-> create_invalid, st |-> assert_failed(st)]

----------------------------------------------------------------------------
(* Semantics (mi::mdl::IDefinition::Semantics) *)

UnaryOperators == {"OK_LOGICAL_NOT"}
BinaryOperators == {"OK_PLUS"}
OperatorSemantics == UnaryOperators \cup BinaryOperators \cup {"OK_TERNARY"}

TexSizeSemantics == {"DS_INTRINSIC_TEX_WIDTH", "DS_INTRINSIC_TEX_HEIGHT"}
TexTexelSemantics ==
    {"DS_INTRINSIC_TEX_TEXEL_FLOAT", "DS_INTRINSIC_TEX_TEXEL_FLOAT2",
     "DS_INTRINSIC_TEX_TEXEL_FLOAT3", "DS_INTRINSIC_TEX_TEXEL_FLOAT4",
     "DS_INTRINSIC_TEX_TEXEL_COLOR"}
MigratedSemantics ==
    {"DS_INTRINSIC_DF_MEASURED_EDF", "DS_INTRINSIC_DF_FRESNEL_LAYER",
     "DS_INTRINSIC_DF_SPOT_EDF", "DS_INTRINSIC_STATE_ROUNDED_CORNER_NORMAL"}
        \cup TexSizeSemantics \cup TexTexelSemantics
DagSemantics ==
    {"DS_INTRINSIC_DAG_FIELD_ACCESS", "DS_INTRINSIC_DAG_INDEX_ACCESS",
     "DS_INTRINSIC_DAG_ARRAY_CONSTRUCTOR", "DS_INTRINSIC_DAG_ARRAY_LENGTH",
     "DS_INTRINSIC_DAG_SET_OBJECT_ID", "DS_INTRINSIC_DAG_SET_TRANSFORMS"}
OtherSemantics == {"DS_UNKNOWN", "DS_INTRINSIC_MATH_SIN"}
Semantics ==
    OperatorSemantics \cup MigratedSemantics \cup DagSemantics \cup OtherSemantics

semantic_is_operator(sema) == sema \in OperatorSemantics
semantic_to_operator(sema) == sema
is_unary_operator(op) == op \in UnaryOperators
is_binary_operator(op) == op \in BinaryOperators

----------------------------------------------------------------------------
(* Source expressions.  id is the identity of the expression object, the   *)
(* key of m_param_map.  A call carries the store records it refers to.     *)

Null == [kind |-> "null", id |-> 0]

\* IExpression_list::get_expression(i): NULL past the end
get_expression_m(args, i) ==
    IF i >= 0 THEN args[1].expr ELSE Null

get_expression(args, i) ==
    IF i >= 0 /\ i < Len(args) THEN args[i + 1].expr ELSE Null

\* IExpression_list::get_name(i)
get_name(args, i) ==
    IF i >= 0 /\ i < Len(args) THEN args[i + 1].name ELSE "NULL"

----------------------------------------------------------------------------
(* transform_call *)

is_bound_m(expr) == expr.id \in DOMAIN m_param_map /\ expr.kind = "constant"

\* m_param_map.find(expr) != m_param_map.end()
is_bound(expr) == expr.id \in DOMAIN m_param_map

RECURSIVE transform_expr(_, _, _)

\* the named/positional wrapping of a supplied argument
wrap_argument(named_args, name, expr) ==
    IF named_args
    THEN create_named_argument(to_simple_name(name), expr)
    ELSE create_positional_argument(expr)

\* default_argument forgetting the calling convention
default_argument_m(named_args, name, expr) == create_positional_argument(expr)

\* the named/positional wrapping of an inserted default argument
default_argument(named_args, name, expr) ==
    IF named_args
    THEN create_named_argument(to_simple_name(name), expr)
    ELSE create_positional_argument(expr)

\* args->get_expression(i), transform_expr, and the wrapping of the result
supplied_argument(args, i, named_args, st, d) ==
    LET wrapped(r) ==
            [arg |-> wrap_argument(named_args, get_name(args, i), r.ast),
             ast |-> r.ast, st |-> r.st]
    IN wrapped(transform_expr(get_expression(args, i), st, d))

\* the recording of a user-defined return type at the entry of transform_call
record_user_type_m(ret_type, st) ==
    LET type == skip_all_type_aliases(ret_type)
        once(used, sym) ==
            IF \E i \in 1..Len(used) : used[i] = sym THEN used ELSE Append(used, sym)
    IN IF type.kind = "struct"
       THEN IF type.sid = "user"
            THEN [st EXCEPT !.used = once(@, type.symbol)] ELSE st
       ELSE IF type.kind = "enum"
       THEN IF type.eid # "intensity_mode"
            THEN [st EXCEPT !.used = once(@, type.symbol)] ELSE st
       ELSE st

\* the head of transform_call: m_used_user_types.push_back
record_user_type(ret_type, st) ==
    LET type == skip_all_type_aliases(ret_type)
    IN IF type.kind = "struct"
       THEN IF type.sid = "user"
            THEN [st EXCEPT !.used = Append(@, type.symbol)] ELSE st
       ELSE IF type.kind = "enum"
       THEN IF type.eid # "intensity_mode"
            THEN [st EXCEPT !.used = Append(@, type.symbol)] ELSE st
       ELSE st

\* the transformation of the arguments i .. n_params - 1 in order, each wrapped
\* per the calling convention; it stops where the process has stopped
RECURSIVE argument_loop(_, _, _, _, _, _, _)
argument_loop(args, i, n_params, named_args, acc, st, d) ==
    IF i >= n_params \/ st.status # "ok"
    THEN [args |-> acc, st |-> st]
    ELSE LET next(r) == argument_loop(args, i + 1, n_params, named_args,
                                      Append(acc, r.arg), r.st, d)
         IN next(supplied_argument(args, i, named_args, st, d))

\* the expression of the k-th transformed argument
operand(r, k) == IF k <= Len(r.args) THEN r.args[k].expr ELSE create_invalid

\* lower_operator without the ternary branch
lower_operator_m(sema, args, st, d) ==
    LET op == semantic_to_operator(sema)
        unary(r) == [taken |-> TRUE, rule |-> "unary", st |-> r.st,
                     ast |-> create_unary(op, operand(r, 1))]
        binary(r) == [taken |-> TRUE, rule |-> "binary", st |-> r.st,
                      ast |-> create_binary(op, operand(r, 1), operand(r, 2))]
    IN IF is_unary_operator(op)
       THEN unary(argument_loop(args, 0, 1, FALSE, <<>>, st, d))
       ELSE IF is_binary_operator(op)
       THEN binary(argument_loop(args, 0, 2, FALSE, <<>>, st, d))
       ELSE [taken |-> FALSE, rule |-> "none", st |-> st, ast |-> create_invalid]

\* operator lowering: the operands are transformed in order; taken is FALSE
\* when control leaves the if unreturned
lower_operator(sema, args, st, d) ==
    LET op == semantic_to_operator(sema)
        unary(r) == [taken |-> TRUE, rule |-> "unary", st |-> r.st,
                     ast |-> create_unary(op, operand(r, 1))]
        binary(r) == [taken |-> TRUE, rule |-> "binary", st |-> r.st,
                      ast |-> create_binary(op, operand(r, 1), operand(r, 2))]
        ternary(r) == [taken |-> TRUE, rule |-> "ternary", st |-> r.st,
                       ast |-> create_conditional(operand(r, 1), operand(r, 2),
                                                  operand(r, 3))]
    IN IF is_unary_operator(op)
       THEN unary(argument_loop(args, 0, 1, FALSE, <<>>, st, d))
       ELSE IF is_binary_operator(op)
       THEN binary(argument_loop(args, 0, 2, FALSE, <<>>, st, d))
       ELSE IF op = "OK_TERNARY"
       THEN ternary(argument_loop(args, 0, 3, FALSE, <<>>, st, d))
       ELSE [taken |-> FALSE, rule |-> "none", st |-> st, ast |-> create_invalid]

\* state::texture_tangent_u(0)
tu_call ==
    create_call(
        to_reference(create_qualified_name(
            <<"s", "t", "a", "t", "e", ":", ":", "t", "e", "x", "t", "u", "r", "e",
              "_", "t", "a", "n", "g", "e", "n", "t", "_", "u">>)),
        <<create_positional_argument(create_literal(create_int(0)))>>)

\* the loop of the MDL 1.0 -> 1.2 measured_edf conversion
RECURSIVE measured_edf_loop_10(_, _, _, _, _, _, _, _)
measured_edf_loop_10(args, i, j, n_params, named_args, acc, st, d) ==
    IF i >= n_params \/ st.status # "ok"
    THEN [args |-> acc, st |-> st]
    ELSE LET ins == IF j = 1
                    THEN <<default_argument(named_args, "multiplier",
                               create_literal(create_float("1.0")))>>
                    ELSE IF j = 4
                    THEN <<default_argument(named_args, "tangent_u", tu_call)>>
                    ELSE <<>>
             j1 == IF j = 1 \/ j = 4 THEN j + 1 ELSE j
             next(r) == measured_edf_loop_10(args, i + 1, j1 + 1, n_params, named_args,
                            acc \o ins \o <<r.arg>>, r.st, d)
         IN next(supplied_argument(args, i, named_args, st, d))

\* the loop of the MDL 1.1 -> 1.2 measured_edf conversion
RECURSIVE measured_edf_loop_11(_, _, _, _, _, _, _, _)
measured_edf_loop_11(args, i, j, n_params, named_args, acc, st, d) ==
    IF i >= n_params \/ st.status # "ok"
    THEN [args |-> acc, st |-> st]
    ELSE LET ins == IF j = 4
                    THEN <<default_argument(named_args, "tangent_u", tu_call)>>
                    ELSE <<>>
             j1 == IF j = 4 THEN j + 1 ELSE j
             next(r) == measured_edf_loop_11(args, i + 1, j1 + 1, n_params, named_args,
                            acc \o ins \o <<r.arg>>, r.st, d)
         IN next(supplied_argument(args, i, named_args, st, d))

\* the color constructor wrapped around an expression
color_constructor(expr) ==
    create_call(to_reference(create_qualified_name(<<"c", "o", "l", "o", "r">>)),
                <<create_positional_argument(expr)>>)

\* the loop of the MDL 1.3 -> 1.4 fresnel_layer conversion
RECURSIVE fresnel_layer_loop(_, _, _, _, _, _, _)
fresnel_layer_loop(args, i, n_params, named_args, acc, st, d) ==
    IF i >= n_params \/ st.status # "ok"
    THEN [args |-> acc, st |-> st]
    ELSE LET expr(r) == IF i = 1 THEN color_constructor(r.ast) ELSE r.ast
             next(r) == fresnel_layer_loop(args, i + 1, n_params, named_args,
                            Append(acc, wrap_argument(named_args, get_name(args, i),
                                                      expr(r))),
                            r.st, d)
         IN next(transform_expr(get_expression(args, i), st, d))

\* spot_edf_loop inserting spread one position late
RECURSIVE spot_edf_loop_m(_, _, _, _, _, _, _)
spot_edf_loop_m(args, i, n_params, named_args, acc, st, d) ==
    IF i >= n_params \/ st.status # "ok"
    THEN [args |-> acc, st |-> st]
    ELSE LET ins == IF i = 2
                    THEN <<default_argument(named_args, "spread",
                               create_literal(create_float("M_PI")))>>
                    ELSE <<>>
             next(r) == spot_edf_loop_m(args, i + 1, n_params, named_args,
                            acc \o ins \o <<r.arg>>, r.st, d)
         IN next(supplied_argument(args, i, named_args, st, d))

\* the loop of the MDL 1.0 -> 1.1 spot_edf conversion
RECURSIVE spot_edf_loop(_, _, _, _, _, _, _)
spot_edf_loop(args, i, n_params, named_args, acc, st, d) ==
    IF i >= n_params \/ st.status # "ok"
    THEN [args |-> acc, st |-> st]
    ELSE LET ins == IF i = 1
                    THEN <<default_argument(named_args, "spread",
                               create_literal(create_float("M_PI")))>>
                    ELSE <<>>
             next(r) == spot_edf_loop(args, i + 1, n_params, named_args,
                            acc \o ins \o <<r.arg>>, r.st, d)
         IN next(supplied_argument(args, i, named_args, st, d))

\* measured_edf_version taking the MDL 1.0 signature for the MDL 1.1 one
measured_edf_version_m(n_params) ==
    IF n_params = 4 \/ n_params = 5 THEN "1.1" ELSE "latest"

\* which measured_edf signature a call with n_params parameters has
measured_edf_version(n_params) ==
    IF n_params = 4 THEN "1.0" ELSE IF n_params = 5 THEN "1.1" ELSE "latest"

\* fresnel_layer_is_deprecated not looking at the name
fresnel_layer_is_deprecated_m(callee_name) == TRUE

\* the half-colored fresnel_layer is recognised by its $mdl_version suffix
fresnel_layer_is_deprecated(callee_name) == rfind(callee_name, "$") # npos

\* spot_edf_is_old with >= for ==
spot_edf_is_old_m(n_params) == n_params >= 4

spot_edf_is_old(n_params) == n_params = 4

\* rounded_corner_normal_is_old with <= for ==
rounded_corner_normal_is_old_m(n_params) == n_params <= 2

rounded_corner_normal_is_old(n_params) == n_params = 2

tex_size_is_old(n_params) == n_params = 1

tex_texel_is_old(n_params) == n_params = 2

\* needs_uv_tile accepting every texture shape
needs_uv_tile_m(expr) == expr.type.tk = "texture"

\* needs_uv_tile accepting texture_3d as well
needs_uv_tile_m2(expr) == expr.type.tk = "texture" /\ expr.type.shape \in {"2d", "3d"}

\* the test guarding the insertion of uv_tile
needs_uv_tile(expr) == is_tex_2d(expr.type)

uv_tile_argument(named_args) ==
    default_argument(named_args, "uv_tile", create_literal(create_int2_zero))

\* the MDL 1.X => MDL 1.LATEST switch; taken is FALSE on break
migrate_call(sema, callee_name, n_params, args, named_args, st, d) ==
    LET none == [taken |-> FALSE, rule |-> "none", st |-> st, ast |-> create_invalid]
        ref == to_reference(create_qualified_name(remove_deprecated(callee_name)))
        call(rule, callee, r) == [taken |-> TRUE, rule |-> rule, st |-> r.st,
                                  ast |-> create_call(callee, r.args)]
    IN CASE sema = "DS_INTRINSIC_DF_MEASURED_EDF" ->
            IF measured_edf_version(n_params) = "1.0"
            THEN call("measured_edf_1_0", ref,
                      measured_edf_loop_10(args, 0, 0, n_params, named_args,
                                           <<>>, st, d))
            ELSE IF measured_edf_version(n_params) = "1.1"
            THEN call("measured_edf_1_1", ref,
                      measured_edf_loop_11(args, 0, 0, n_params, named_args,
                                           <<>>, st, d))
            ELSE none
         [] sema = "DS_INTRINSIC_DF_FRESNEL_LAYER" ->
            IF fresnel_layer_is_deprecated(callee_name)
            THEN call("fresnel_layer",
                      to_reference(create_qualified_name(
                          <<":", ":", "d", "f", ":", ":", "c", "o", "l", "o", "r",
                            "_", "f", "r", "e", "s", "n", "e", "l", "_",
                            "l", "a", "y", "e", "r">>)),
                      fresnel_layer_loop(args, 0, n_params, named_args, <<>>, st, d))
            ELSE none
         [] sema = "DS_INTRINSIC_DF_SPOT_EDF" ->
            IF spot_edf_is_old(n_params)
            THEN call("spot_edf", ref,
                      spot_edf_loop(args, 0, n_params, named_args, <<>>, st, d))
            ELSE none
         [] sema = "DS_INTRINSIC_STATE_ROUNDED_CORNER_NORMAL" ->
            IF rounded_corner_normal_is_old(n_params)
            THEN LET roundness == default_argument(named_args, "roundness",
                                      create_literal(create_float("1.0")))
                     appended(r) == [args |-> Append(r.args, roundness),
                                     st |-> r.st]
                 IN call("rounded_corner_normal", ref,
                         appended(argument_loop(args, 0, n_params, named_args,
                                                <<>>, st, d)))
            ELSE none
         [] sema \in TexSizeSemantics ->
            IF tex_size_is_old(n_params)
            THEN LET uv(r) == IF r.st.status = "ok" /\ needs_uv_tile(operand(r, 1))
                              THEN <<uv_tile_argument(named_args)>> ELSE <<>>
                     texture(r) == [args |-> r.args \o uv(r), st |-> r.st]
                 IN call("tex_size", ref,
                         texture(argument_loop(args, 0, 1, named_args, <<>>, st, d)))
            ELSE none
         [] sema \in TexTexelSemantics ->
            IF tex_texel_is_old(n_params)
            THEN LET uv(r) == IF r.st.status = "ok" /\ needs_uv_tile(operand(r, 1))
                              THEN <<uv_tile_argument(named_args)>> ELSE <<>>
                     texel(r) == [args |-> r.args \o uv(r), st |-> r.st]
                 IN call("tex_texel", ref,
                         texel(argument_loop(args, 0, 2, named_args, <<>>, st, d)))
            ELSE none
         [] OTHER -> none

\* Mdl_ast_builder::get_field_sym
get_field_sym(def) ==
    LET p == find(def, <<".", "m", "d", "l", "e", ":", ":">>, 0)
        dot == find(def, <<".">>, IF p # npos THEN p + 7 ELSE 0)
    IN IF dot # npos
       THEN [found |-> TRUE, sym |-> substr_from(def, dot + 1)]
       ELSE [found |-> FALSE, sym |-> <<>>]

\* the default case of the second switch: a plain call
plain_call(callee_name, n_params, args, named_args, st, d) ==
    LET ref == to_reference(create_qualified_name(callee_name))
        call(r) == [rule |-> "plain", st |-> r.st, ast |-> create_call(ref, r.args)]
    IN call(argument_loop(args, 0, n_params, named_args, <<>>, st, d))

array_length_m(args, st, d) ==
    LET arg == get_expression(args, 0)
        length(r) ==
            IF r.st.status # "ok"
            THEN [rule |-> "array_length", ast |-> create_invalid, st |-> r.st]
            ELSE IF arg.type.kind # "array"
            THEN [rule |-> "array_length", ast |-> create_invalid,
                  st |-> assert_failed(r.st)]
            ELSE IF arg.type.immediate
            THEN [rule |-> "array_length", st |-> r.st,
                  ast |-> create_literal(create_int(arg.type.size))]
            ELSE [rule |-> "array_length", st |-> r.st,
                  ast |-> to_reference(create_qualified_name(arg.type.dsize))]
    IN length(transform_expr(arg, st, d))

\* the case DS_INTRINSIC_DAG_ARRAY_LENGTH: only the type of the argument is read
array_length(args, st, d) ==
    LET arg == get_expression(args, 0)
    IN IF arg.kind = "null"
       THEN [rule |-> "array_length", ast |-> create_invalid,
             st |-> [st EXCEPT !.status = "crashed"]]
       ELSE IF arg.type.kind # "array"
       THEN [rule |-> "array_length", ast |-> create_invalid,
             st |-> assert_failed(st)]
       ELSE IF arg.type.immediate
       THEN [rule |-> "array_length", st |-> st,
             ast |-> create_literal(create_int(arg.type.size))]
       ELSE [rule |-> "array_length", st |-> st,
             ast |-> to_reference(create_qualified_name(arg.type.dsize))]

\* the second switch of transform_call: DAG intrinsics and plain calls
dispatch_call(ret_type, sema, callee_name, n_params, args, named_args, st, d) ==
    CASE sema = "DS_INTRINSIC_DAG_FIELD_ACCESS" ->
            LET select(compound, f_sym) ==
                    IF compound.st.status # "ok"
                    THEN [rule |-> "field_access", st |-> compound.st,
                          ast |-> create_invalid]
                    ELSE IF f_sym.found
                    THEN [rule |-> "field_access", st |-> compound.st,
                          ast |-> create_binary("OK_SELECT", compound.ast,
                                                to_reference_sym(f_sym.sym))]
                    ELSE [rule |-> "field_access", st |-> assert_failed(compound.st),
                          ast |-> create_invalid]
            IN select(transform_expr(get_expression(args, 0), st, d),
                      get_field_sym(callee_name))
      [] sema = "DS_INTRINSIC_DAG_INDEX_ACCESS" ->
            LET access(r) ==
                    [rule |-> "index_access", st |-> r.st,
                     ast |-> create_binary("OK_ARRAY_INDEX", operand(r, 1),
                                           operand(r, 2))]
            IN access(argument_loop(args, 0, 2, FALSE, <<>>, st, d))
      [] sema = "DS_INTRINSIC_DAG_ARRAY_CONSTRUCTOR" ->
            IF ret_type.kind # "array"
            THEN [rule |-> "array_constructor", ast |-> create_invalid,
                  st |-> [st EXCEPT !.status = "crashed"]]
            ELSE LET ref == create_reference(create_type_name(ret_type.elem))
                     call(r) == [rule |-> "array_constructor", st |-> r.st,
                                 ast |-> create_call(ref, r.args)]
                 IN call(argument_loop(args, 0, n_params, FALSE, <<>>, st, d))
      [] sema = "DS_INTRINSIC_DAG_ARRAY_LENGTH" -> array_length(args, st, d)
      [] sema \in {"DS_INTRINSIC_DAG_SET_OBJECT_ID",
                   "DS_INTRINSIC_DAG_SET_TRANSFORMS"} ->
            [rule |-> "reserved", st |-> assert_failed(st), ast |-> create_invalid]
      [] OTHER -> plain_call(callee_name, n_params, args, named_args, st, d)

\* Mdl_ast_builder::transform_call
transform_call_m(ret_type, sema, callee_name, n_params, args, named_args, st0, d) ==
    LET st == st0
        none == [taken |-> FALSE, rule |-> "none", st |-> st, ast |-> create_invalid]
        returned(r, rest) ==
            IF r.taken THEN [rule |-> r.rule, st |-> r.st, ast |-> r.ast] ELSE rest
        recorded(r) == [r EXCEPT !.st = record_user_type(ret_type, r.st)]
    IN recorded(returned(IF semantic_is_operator(sema)
                THEN lower_operator(sema, args, st, d) ELSE none,
                returned(migrate_call(sema, callee_name, n_params, args,
                                      named_args, st, d),
                         dispatch_call(ret_type, sema, callee_name, n_params, args,
                                       named_args, st, d))))

transform_call(ret_type, sema, callee_name, n_params, args, named_args, st0, d) ==
    LET st == record_user_type(ret_type, st0)
        none == [taken |-> FALSE, rule |-> "none", st |-> st, ast |-> create_invalid]
        returned(r, rest) ==
            IF r.taken THEN [rule |-> r.rule, st |-> r.st, ast |-> r.ast] ELSE rest
    IN returned(IF semantic_is_operator(sema)
                THEN lower_operator(sema, args, st, d) ELSE none,
                returned(migrate_call(sema, callee_name, n_params, args,
                                      named_args, st, d),
                         dispatch_call(ret_type, sema, callee_name, n_params, args,
                                       named_args, st, d)))

----------------------------------------------------------------------------
(* transform_expr *)

\* unexpected_expression handing back a default literal
unexpected_expression_m(st) ==
    [rule |-> "invalid", st |-> st, ast |-> create_literal(create_int(0))]

\* the EK_PARAMETER case when m_args has no argument at the index, and the
\* kinds that are no input of the builder: ASSERT, then the invalid expression
unexpected_expression(st) ==
    [rule |-> "invalid", st |-> assert_failed(st), ast |-> create_invalid]

is_function_m(expr) == expr.class_id = "Mdl_function_call"

\* the callee is a function: a call on a Mdl_function_call, a direct call on
\* a Mdl_function_definition
is_function(expr) ==
    \/ expr.kind = "call" /\ expr.class_id = "Mdl_function_call"
    \/ expr.kind = "direct_call" /\ expr.class_id = "Mdl_function_definition"

\* the callee is a material: a call on a Mdl_material_instance, a direct call
\* on a Mdl_material_definition
is_material(expr) ==
    \/ expr.kind = "call" /\ expr.class_id = "Mdl_material_instance"
    \/ expr.kind = "direct_call" /\ expr.class_id = "Mdl_material_definition"

\* Mdl_ast_builder::transform_expr; d is the stack depth left
transform_expr(expr, st0, d) ==
    LET st == entered(st0) IN
    IF d = 0
    THEN [rule |-> "overflow", ast |-> create_invalid,
          st |-> [st EXCEPT !.status = "overflow"]]
    ELSE IF is_bound(expr)
    THEN [rule |-> "bound", st |-> st,
          ast |-> to_reference_sym(m_param_map[expr.id])]
    ELSE CASE expr.kind = "null" ->
            [rule |-> "null", ast |-> create_invalid,
             st |-> [st EXCEPT !.status = "crashed"]]
      [] expr.kind = "constant" ->
            LET value(r) == [rule |-> "value", st |-> r.st, ast |-> r.ast]
            IN value(transform_value(expr.value, st))
      [] expr.kind \in {"call", "direct_call"} ->
            IF is_function(expr) \/ is_material(expr)
            THEN transform_call(expr.type,
                     IF is_function(expr) THEN expr.mdl_semantic ELSE "DS_UNKNOWN",
                     dag_unmangle(IF expr.has_original THEN expr.mdl_original_name
                                  ELSE expr.mdl_name),
                     expr.parameter_count, expr.arguments, is_material(expr),
                     st, d - 1)
            ELSE unexpected_expression(st)
      [] expr.kind = "parameter" ->
            LET arg == get_expression(m_args, expr.index)
            IN IF arg.kind # "null"
               THEN transform_expr(arg, st, d - 1)
               ELSE unexpected_expression(st)
      [] OTHER -> unexpected_expression(st)

----------------------------------------------------------------------------
(* The expressions, values and calls the builder is driven with *)

V_int(i) == [kind |-> "int", i |-> i]
V_texture(shape, tag) == [kind |-> "texture", type |-> T_texture(shape), tag |-> tag]
V_light_profile(tag) == [kind |-> "light_profile", type |-> T_light_profile, tag |-> tag]
V_bsdf_measurement(tag) ==
    [kind |-> "bsdf_measurement", type |-> T_bsdf_measurement, tag |-> tag]

Constant(id, value, type) ==
    [kind |-> "constant", id |-> id, value |-> value, type |-> type]
Parameter(id, index, type) ==
    [kind |-> "parameter", id |-> id, index |-> index, type |-> type]
Temporary(id) == [kind |-> "temporary", id |-> id, type |-> T_int]
Call(id, kind, class_id, sema, name, arguments, type) ==
    [kind |-> kind, id |-> id, class_id |-> class_id, mdl_semantic |-> sema,
     mdl_name |-> name, has_original |-> FALSE, mdl_original_name |-> <<>>,
     parameter_count |-> Len(arguments), arguments |-> arguments, type |-> type]

T_S == T_struct("user", S_sym)
T_E == T_enum("user", E_sym, <<[name |-> <<"a">>, code |-> 0]>>)

N_f == <<":", ":", "d", "f", ":", ":", "f">>
N_f_deprecated == N_f \o <<"$", "1", ".", "3">>
N_field == <<"S", ".", "x">>
N_mdle_field ==
    <<"m", ".", "m", "d", "l", "e", ":", ":", "b", "a", "s", "e", ".",
      "s", "u", "r", "f", "a", "c", "e", ".",
      "s", "c", "a", "t", "t", "e", "r", "i", "n", "g">>
CalleeNames == {N_f, N_f_deprecated}

\* a function call without arguments that returns the given type
Returning(id, type) ==
    Call(id, "call", "Mdl_function_call", "DS_UNKNOWN", N_f, <<>>, type)

\* the first argument of the calls handed to transform_call
Tex2dInvalid == Constant(1, V_texture("2d", 0), T_texture("2d"))
Tex3dInvalid == Constant(2, V_texture("3d", 0), T_texture("3d"))
Tex2dFile == Constant(3, V_texture("2d", 1), T_texture("2d"))
Param0 == Parameter(4, 0, T_int)
ParamMissing == Parameter(5, 9, T_int)
FirstArgs == {Tex2dInvalid, Tex3dInvalid, Tex2dFile, Param0, ParamMissing}

ArgName(i) == <<"a0", "a1", "a2", "a3", "a4", "a5", "a6">>[i + 1]

\* an argument list of length n: the chosen first argument, then int literals
ArgList(first, n) ==
    [i \in 1..n |->
        [name |-> ArgName(i - 1),
         expr |-> IF i = 1 THEN first ELSE Constant(10 + i, V_int(i), T_int)]]

\* every first argument on the short lists, where the texture rules apply
ArgLists ==
    {<<>>, ArgList(Tex2dFile, 1), ArgList(ParamMissing, 2)}
        \cup { ArgList(f, n) : f \in {Tex2dInvalid, Tex3dInvalid, Param0}, n \in 1..2 }
        \cup { ArgList(Param0, n) : n \in 3..MaxArgs }

RetTypes == {T_float}

\* the top-level argument list given to the constructor
TopLevelArgs ==
    <<[name |-> "x", expr |-> Constant(20, V_int(20), T_int)],
      [name |-> "t", expr |-> Constant(21, V_texture("2d", 3), T_texture("2d"))]>>

\* the expressions handed to transform_expr
ExprPool ==
    \* the predefined enums and struct a call can return, and the argument
    \* list of the given expressions
    LET G_sym == <<":", ":", "t", "e", "x", ":", ":", "g", "a", "m", "m", "a", "_", "m", "o", "d", "e">>
        I_sym == <<":", ":", "i", "n", "t", "e", "n", "s", "i", "t", "y", "_", "m", "o", "d", "e">>
        T_gamma_mode ==
            T_enum("tex_gamma_mode", G_sym, <<[name |-> <<"g", "a", "m", "m", "a", "_",
                                               "d", "e", "f", "a", "u", "l", "t">>, code |-> 0]>>)
        T_intensity_mode ==
            T_enum("intensity_mode", I_sym, <<[name |-> <<"i", "n", "t", "e", "n", "s", "i", "t", "y",
                                               "_", "r", "a", "d", "i", "a", "n", "t", "_",
                                               "e", "x", "i", "t", "a", "n", "c", "e">>, code |-> 0]>>)
        T_material == T_struct("material", <<"m", "a", "t", "e", "r", "i", "a", "l">>)
        ArgsOf(exprs) ==
            [i \in 1..Len(exprs) |-> [name |-> ArgName(i - 1), expr |-> exprs[i]]]
    IN
    {Tex2dFile, Param0, ParamMissing, Temporary(30),
     Parameter(31, 1, T_texture("2d")),
     Call(32, "call", "Mdl_function_call", "DS_INTRINSIC_DF_SPOT_EDF",
          N_f_deprecated \o <<"(", "i", ")">>, ArgList(Param0, 4), T_float),
     Call(33, "call", "Mdl_material_instance", "DS_INTRINSIC_DF_SPOT_EDF",
          N_f, ArgList(ParamMissing, 2), T_S),
     Call(34, "call", "other", "DS_UNKNOWN", N_f, <<>>, T_S),
     Call(35, "direct_call", "Mdl_function_definition", "DS_INTRINSIC_TEX_WIDTH",
          N_f, ArgList(Parameter(31, 1, T_texture("2d")), 1), T_int),
     Call(36, "direct_call", "Mdl_material_definition", "DS_UNKNOWN",
          N_f, ArgList(Tex3dInvalid, 2), T_S),
     Call(37, "direct_call", "other", "DS_UNKNOWN", N_f, <<>>, T_float),
     Call(38, "call", "Mdl_function_call", "DS_INTRINSIC_DAG_FIELD_ACCESS",
          N_field \o <<"(", "S", ")">>, ArgList(Param0, 1), T_int),
     Call(39, "call", "Mdl_function_call", "DS_INTRINSIC_DAG_FIELD_ACCESS",
          N_mdle_field \o <<"(", "S", ")">>, ArgList(Param0, 1), T_int),
     Call(40, "call", "Mdl_function_call", "DS_INTRINSIC_DAG_ARRAY_LENGTH",
          N_f, ArgList(Parameter(41, 9, T_array_imm(T_int, 5)), 1), T_int),
     Call(42, "call", "Mdl_function_call", "DS_INTRINSIC_DAG_ARRAY_LENGTH",
          N_f, ArgList(Parameter(43, 9, T_array_def(T_int, <<"n">>)), 1), T_int),
     Call(44, "call", "Mdl_function_call", "DS_INTRINSIC_DAG_ARRAY_LENGTH",
          N_f, ArgList(ParamMissing, 1), T_int),
     Returning(50, T_gamma_mode), Returning(51, T_intensity_mode),
     Returning(52, T_E), Returning(53, T_material),
     Returning(54, T_alias(T_S, {"uniform"})),
     Call(60, "call", "Mdl_function_call", "OK_PLUS", N_f, ArgList(Param0, 2), T_S),
     Call(61, "call", "Mdl_function_call", "DS_INTRINSIC_DF_SPOT_EDF",
          N_f_deprecated \o <<"(", "i", ")">>, ArgList(Param0, 4), T_S),
     Call(62, "call", "Mdl_function_call", "DS_INTRINSIC_DAG_FIELD_ACCESS",
          N_field \o <<"(", "S", ")">>, ArgList(Param0, 1), T_E),
     Call(63, "call", "Mdl_function_call", "DS_UNKNOWN", N_f,
          ArgList(ParamMissing, 2), T_E),
     Call(64, "call", "Mdl_function_call", "DS_UNKNOWN", N_f,
          ArgsOf(<<Returning(67, T_S)>>), T_E),
     Call(65, "direct_call", "Mdl_function_definition", "OK_PLUS", N_f,
          ArgsOf(<<Returning(66, T_S), Returning(52, T_E)>>), T_float)}

\* the values handed to transform_value: every resource kind with the invalid
\* tag, a record of another kind, a record without a file and one with a file
TextureTags == {0, 1, 3, 4, 6, 7, 8, 11, 12}
LightProfileTags == {0, 4, 5, 9}
BsdfMeasurementTags == {0, 4, 5, 10}
\* a vector, a color, a matrix of two vectors, a user struct holding a vector
\* and a texture, arrays of structs, of textures and of nothing
ValuePool ==
    LET V_float(f) == [kind |-> "float", f |-> f]
        V_compound(type, elems) == [kind |-> type.kind, type |-> type, elems |-> elems]
        V_float2(x, y) == V_compound(T_vector(T_float, 2), <<V_float(x), V_float(y)>>)
        V_S(x) == V_compound(T_S, <<V_float2(x, "0.0"), V_texture("2d", 3)>>)
        CompoundValues ==
            {V_float2("1.0", "2.0"),
             V_compound(T_color, <<V_float("0.5"), V_float("0.25"), V_float("1.0")>>),
             V_compound([kind |-> "matrix", elem |-> T_vector(T_float, 2), size |-> 2],
                        <<V_float2("1.0", "0.0"), V_float2("0.0", "1.0")>>),
             V_S("1.0"),
             V_compound(T_array_imm(T_S, 2), <<V_S("1.0"), V_S("2.0")>>),
             V_compound(T_array_imm(T_texture("2d"), 2),
                        <<V_texture("2d", 1), V_texture("2d", 0)>>),
             V_compound(T_array_imm(T_int, 0), <<>>)}
    IN
    { V_texture("2d", t) : t \in TextureTags }
        \cup { V_light_profile(t) : t \in LightProfileTags }
        \cup { V_bsdf_measurement(t) : t \in BsdfMeasurementTags }
        \cup {V_int(7)}
        \cup CompoundValues

\* the expressions and symbols given to declare_parameter: a constant, an
\* expression of a kind transform_expr does not support, a call returning a
\* user type and the second top-level argument
Bindable == {Tex2dFile, Temporary(30), Returning(52, T_E), TopLevelArgs[2].expr}
ParamSymbols == {<<"p", "0">>}

----------------------------------------------------------------------------
(* The session *)

NoCall == [op |-> "none"]

Init ==
    /\ m_tmp_idx = 0
    /\ m_param_map = <<>>
    /\ m_args = TopLevelArgs
    /\ m_used_user_types = <<>>
    /\ mod_log = <<>>
    /\ enable_assert \in BOOLEAN
    /\ status = "running"
    /\ last = NoCall

\* the effects of a rewrite on the session
Entry == [used |-> m_used_user_types, log |-> mod_log, status |-> "ok",
          violated |-> FALSE, resumed |-> FALSE]

\* what the session has accumulated; a message counts twice, there being
\* several different ones
SessionSize(tmp_idx, param_map, used, log) ==
    tmp_idx + Cardinality(DOMAIN param_map) + Len(used) + Len(log) + Len(log)

\* the messages a rewrite has added to the log
diagnostics(st) == SubSeq(st.log, Len(mod_log) + 1, Len(st.log))

Commit(st) ==
    /\ Len(st.used) <= MaxUsed
    /\ Len(st.log) <= MaxLog
    /\ SessionSize(m_tmp_idx, m_param_map, st.used, st.log) <= MaxSession
    /\ m_used_user_types' = st.used
    /\ mod_log' = st.log
    /\ status' = IF st.status = "ok" THEN "running" ELSE st.status

Idle == status = "running" /\ last = NoCall

TransformCall(ret_type, sema, callee_name, args, named_args) ==
    /\ Idle
    /\ SessionSize(m_tmp_idx, m_param_map, m_used_user_types, mod_log) <= MaxCallSession
    /\ LET n_params == Len(args)
           returned(r) ==
               /\ Commit(r.st)
               /\ last' = [op |-> "transform_call", ret_type |-> ret_type,
                           sema |-> sema, callee_name |-> callee_name,
                           n_params |-> n_params, args |-> args,
                           named_args |-> named_args, rule |-> r.rule,
                           ok |-> r.st.status = "ok", ast |-> r.ast,
                           violated |-> r.st.violated, resumed |-> r.st.resumed,
                           diagnostics |-> diagnostics(r.st)]
       IN returned(transform_call(ret_type, sema, callee_name, n_params, args,
                                  named_args, Entry, MaxDepth))
    /\ UNCHANGED <<m_tmp_idx, m_param_map, m_args, enable_assert>>

TransformExpr(expr) ==
    /\ Idle
    /\ LET returned(r) ==
               /\ Commit(r.st)
               /\ last' = [op |-> "transform_expr", expr |-> expr,
                           rule |-> r.rule, ok |-> r.st.status = "ok", ast |-> r.ast,
                           violated |-> r.st.violated, resumed |-> r.st.resumed,
                           diagnostics |-> diagnostics(r.st)]
       IN returned(transform_expr(expr, Entry, MaxDepth))
    /\ UNCHANGED <<m_tmp_idx, m_param_map, m_args, enable_assert>>

TransformValue(value) ==
    /\ Idle
    /\ LET returned(r) ==
               /\ Commit(r.st)
               /\ last' = [op |-> "transform_value", value |-> value,
                           ok |-> r.st.status = "ok", ast |-> r.ast,
                           violated |-> r.st.violated, resumed |-> r.st.resumed,
                           diagnostics |-> diagnostics(r.st)]
       IN returned(transform_value(value, Entry))
    /\ UNCHANGED <<m_tmp_idx, m_param_map, m_args, enable_assert>>

declare_parameter_m(param_map, sym, init) == [id \in {init.id} |-> sym]

\* m_param_map[init] = sym
declare_parameter(param_map, sym, init) ==
    [id \in DOMAIN param_map \cup {init.id} |->
        IF id = init.id THEN sym ELSE param_map[id]]

DeclareParameter(sym, init) ==
    /\ Idle
    /\ SessionSize(m_tmp_idx, m_param_map, m_used_user_types, mod_log)
           + (IF init.id \in DOMAIN m_param_map THEN 0 ELSE 1) <= MaxSession
    /\ m_param_map' = declare_parameter(m_param_map, sym, init)
    /\ UNCHANGED <<m_tmp_idx, m_args, m_used_user_types, mod_log, enable_assert,
                   status, last>>

RemoveParameters_m ==
    /\ Idle
    /\ m_param_map' = <<>>
    /\ m_tmp_idx' = 0
    /\ UNCHANGED <<m_args, m_used_user_types, mod_log, enable_assert, status, last>>

RemoveParameters ==
    /\ Idle
    /\ m_param_map' = <<>>
    /\ UNCHANGED <<m_tmp_idx, m_args, m_used_user_types, mod_log, enable_assert,
                   status, last>>

\* the two 16-bit halves of the unsigned value of a 32-bit pattern
halves(n) ==
    IF n >= 0 THEN <<n \div 65536, n % 65536>>
    ELSE <<65535 - ((-n - 1) \div 65536), 65535 - ((-n - 1) % 65536)>>

\* snprintf("%u"): the decimal digits of the unsigned value, by long division
RECURSIVE format_u(_, _)
format_u(hi, lo) ==
    LET x == (hi % 10) * 65536 + lo
    IN IF hi = 0 /\ lo < 10 THEN unsigned_str(lo)
       ELSE format_u(hi \div 10, x \div 10) \o unsigned_str(x % 10)

\* m_tmp_idx++ of an unsigned: the successor modulo 2^32
post_increment(n) ==
    IF n = 2147483647 THEN -2147483647 - 1 ELSE n + 1

get_temporary_symbol_m(tmp_idx) ==
    [sym |-> <<"t", "m", "p">>
                \o format_u(halves(post_increment(tmp_idx))[1],
                            halves(post_increment(tmp_idx))[2]),
     tmp_idx |-> post_increment(tmp_idx)]

\* Mdl_ast_builder::get_temporary_symbol: the symbol and the counter it leaves
get_temporary_symbol(tmp_idx) ==
    [sym |-> <<"t", "m", "p">> \o format_u(halves(tmp_idx)[1], halves(tmp_idx)[2]),
     tmp_idx |-> post_increment(tmp_idx)]

TakeTemporarySymbol ==
    /\ Idle
    /\ m_tmp_idx' = get_temporary_symbol(m_tmp_idx).tmp_idx
    /\ last' = [op |-> "get_temporary_symbol",
                sym |-> get_temporary_symbol(m_tmp_idx).sym]
    /\ UNCHANGED <<m_param_map, m_args, m_used_user_types, mod_log, enable_assert,
                   status>>

GetTemporarySymbol ==
    /\ 0 <= m_tmp_idx /\ m_tmp_idx < MaxTmp
    /\ SessionSize(m_tmp_idx, m_param_map, m_used_user_types, mod_log) < MaxSession
    /\ TakeTemporarySymbol

\* the same within MaxTmpRun calls of the wrap of the counter
GetTemporarySymbolRun ==
    /\ -MaxTmpRun <= m_tmp_idx /\ m_tmp_idx < MaxTmpRun
    /\ TakeTemporarySymbol

\* the caller takes the expression it was handed
Return ==
    /\ status = "running"
    /\ last # NoCall
    /\ last' = NoCall
    /\ UNCHANGED <<m_tmp_idx, m_param_map, m_args, m_used_user_types, mod_log,
                   enable_assert, status>>

Next ==
    \/ \E ret_type \in RetTypes, sema \in Semantics, callee_name \in CalleeNames,
          args \in ArgLists, named_args \in BOOLEAN :
          TransformCall(ret_type, sema, callee_name, args, named_args)
    \/ \E expr \in ExprPool : TransformExpr(expr)
    \/ \E value \in ValuePool : TransformValue(value)
    \/ \E sym \in ParamSymbols, init \in Bindable : DeclareParameter(sym, init)
    \/ RemoveParameters
    \/ GetTemporarySymbol
    \/ Return

Spec == Init /\ [][Next]_vars

\* Sessions of get_temporary_symbol alone: a new one, and one that has handed
\* out all but the last MaxTmpRun of its 2^32 names
TmpInit ==
    /\ m_tmp_idx \in {0, -MaxTmpRun}
    /\ m_param_map = <<>>
    /\ m_args = TopLevelArgs
    /\ m_used_user_types = <<>>
    /\ mod_log = <<>>
    /\ enable_assert \in BOOLEAN
    /\ status = "running"
    /\ last = NoCall

TmpNext ==
    \/ GetTemporarySymbolRun
    \/ Return

TmpSpec == TmpInit /\ [][TmpNext]_vars

\* The name builder on its own, on every string of at most MaxNameLen
\* characters out of ':', 'a' and 'b'
CreateNames(name) ==
    /\ Idle
    /\ last' = [op |-> "create_qualified_name", name |-> name,
                qname |-> create_qualified_name(name),
                scope |-> create_scope_name(name)]
    /\ UNCHANGED <<m_tmp_idx, m_param_map, m_args, m_used_user_types, mod_log,
                   enable_assert, status>>

NameNext ==
    \/ \E name \in UNION { [1..n -> {":", "a", "b"}] : n \in 0..MaxNameLen } :
          CreateNames(name)
    \/ Return

NameSpec == Init /\ [][NameNext]_vars

\* The parameter references on their own: every top-level argument list of at
\* most MaxArgsLen arguments, an argument being a constant, a reference to
\* the argument 0, 1 or 2 or to one that does not exist, or a call on a
\* reference to the argument 2
RefIndices == {0, 1, 2, 9}
ArgsPool ==
    LET ArgKinds ==
            {[k |-> "constant"], [k |-> "call", index |-> 2]}
                \cup { [k |-> "parameter", index |-> j] : j \in RefIndices }
        ArgOfKind(p, kind) ==
            CASE kind.k = "constant" -> Constant(100 + p, V_int(p), T_int)
              [] kind.k = "parameter" -> Parameter(110 + 10 * p + kind.index, kind.index, T_int)
              [] kind.k = "call" ->
                    Call(210 + p, "call", "Mdl_function_call", "DS_UNKNOWN", N_f,
                         <<[name |-> ArgName(0),
                            expr |-> Parameter(220 + p, kind.index, T_int)]>>, T_int)
    IN
    UNION { { [p \in 1..n |-> [name |-> ArgName(p - 1), expr |-> ArgOfKind(p, f[p])]] :
                f \in [1..n -> ArgKinds] } : n \in 1..MaxArgsLen }

ArgsInit ==
    /\ m_tmp_idx = 0
    /\ m_param_map = <<>>
    /\ m_args \in ArgsPool
    /\ m_used_user_types = <<>>
    /\ mod_log = <<>>
    /\ enable_assert \in BOOLEAN
    /\ status = "running"
    /\ last = NoCall

\* the expressions handed to transform_expr: a reference to each argument,
\* one to an argument that does not exist, a call on a reference
ArgsNext ==
    \/ \E expr \in
        { Parameter(300 + j, j, T_int) : j \in RefIndices }
            \cup {Call(310, "call", "Mdl_function_call", "DS_UNKNOWN", N_f,
                       <<[name |-> ArgName(0), expr |-> Parameter(311, 0, T_int)]>>,
                       T_int)} :
          TransformExpr(expr)
    \/ \E sym \in ParamSymbols : DeclareParameter(sym, m_args[1].expr)
    \/ RemoveParameters
    \/ Return

ArgsSpec == ArgsInit /\ [][ArgsNext]_vars

----------------------------------------------------------------------------
(* Vocabulary of the properties *)

IsTransformCall == last.op = "transform_call"

\* an argument of the produced call, written out
Arg(named_args, name, expr) ==
    IF named_args
    THEN [ak |-> "named", name |-> name, expr |-> expr]
    ELSE [ak |-> "positional", expr |-> expr]

\* the transformed i-th supplied argument of the last call (i from 0)
SuppliedExpr(i) == transform_expr(last.args[i + 1].expr, Entry, MaxDepth).ast

\* the i-th supplied argument as it must appear in the produced call
Supplied(i) == Arg(last.named_args, last.args[i + 1].name, SuppliedExpr(i))

AllSupplied == [i \in 1..last.n_params |-> Supplied(i - 1)]

FloatLiteral(f) ==
    [ek |-> "literal", type |-> [tk |-> "float"],
     value |-> [vk |-> "float", f |-> f, type |-> [tk |-> "float"]]]

IntLiteral(i) ==
    [ek |-> "literal", type |-> [tk |-> "int"],
     value |-> [vk |-> "int", i |-> i, type |-> [tk |-> "int"]]]

\* the call state::texture_tangent_u(0)
IsTangentUCall(e) ==
    /\ e.ek = "call"
    /\ e.callee.ek = "reference"
    /\ e.callee.name.qname =
          [absolute |-> FALSE,
           components |-> <<<<"s", "t", "a", "t", "e">>,
                            <<"t", "e", "x", "t", "u", "r", "e", "_", "t", "a", "n",
                              "g", "e", "n", "t", "_", "u">>>>]
    /\ e.args = <<[ak |-> "positional", expr |-> IntLiteral(0)]>>

\* the integer pair (0,0)
Int2Zero ==
    [ek |-> "literal",
     type |-> [tk |-> "vector", elem |-> [tk |-> "int"], size |-> 2],
     value |-> [vk |-> "vector", elems |-> <<IntLiteral(0).value, IntLiteral(0).value>>,
                type |-> [tk |-> "vector", elem |-> [tk |-> "int"], size |-> 2]]]

\* the 1-argument call of the color constructor over e
ColorOf(e) ==
    [ek |-> "call", type |-> NoType,
     callee |-> [ek |-> "reference", type |-> NoType,
                 name |-> [qname |-> [absolute |-> FALSE,
                                      components |-> <<<<"c", "o", "l", "o", "r">>>>],
                           qualifier |-> "none", array_size |-> <<>>,
                           incomplete_array |-> FALSE, type |-> NoType]],
     args |-> <<[ak |-> "positional", expr |-> e]>>]

HasMarker(name) == \E k \in 1..Len(name) : name[k] = "$"

\* the type carried by the transformed texture argument is texture_2d
TextureArgIs2d ==
    /\ last.n_params >= 1
    /\ SuppliedExpr(0).type = [tk |-> "texture", shape |-> "2d"]

MigrationRules ==
    {"measured_edf_1_0", "measured_edf_1_1", "fresnel_layer", "spot_edf",
     "rounded_corner_normal", "tex_size", "tex_texel"}

----------------------------------------------------------------------------
(* Properties *)

\* C1: a call whose semantic is an operator is lowered to the unary, binary
\* or conditional expression of that operator; neither a migration rule nor
\* a branch of the second switch is entered, whatever the arguments and the
\* calling convention are.
C1_OperatorAlwaysLowered ==
    (IsTransformCall /\ last.sema \in OperatorSemantics) =>
        /\ last.rule \in {"unary", "binary", "ternary"}
        /\ last.ok =>
              \/ last.sema \in UnaryOperators /\ last.ast.ek = "unary"
                    /\ last.ast.op = last.sema
              \/ last.sema \in BinaryOperators /\ last.ast.ek = "binary"
                    /\ last.ast.op = last.sema
              \/ last.sema = "OK_TERNARY" /\ last.ast.ek = "conditional"

C1_Witness ==
    /\ IsTransformCall /\ last.sema = "OK_TERNARY" /\ last.named_args
    /\ last.callee_name = N_f_deprecated /\ last.n_params = 4
    /\ last.ok /\ last.ast.ek = "conditional"

\* C2: measured_edf with 4 arguments a0..a3 yields [a0, 1.0, a1, a2,
\* state::texture_tangent_u(0), a3], with 5 arguments a0..a4 yields
\* [a0, a1, a2, a3, state::texture_tangent_u(0), a4]; under the named
\* convention the inserted arguments are named multiplier and tangent_u.
C2_MeasuredEdf ==
    (IsTransformCall /\ last.sema = "DS_INTRINSIC_DF_MEASURED_EDF" /\ last.ok
        /\ last.n_params \in {4, 5}) =>
        LET out == last.ast.args
            tu_ok == /\ out[5].ak = (IF last.named_args THEN "named" ELSE "positional")
                     /\ last.named_args => out[5].name = "tangent_u"
                     /\ IsTangentUCall(out[5].expr)
        IN /\ last.ast.ek = "call"
           /\ Len(out) = 6
           /\ tu_ok
           /\ IF last.n_params = 4
              THEN /\ out[1] = Supplied(0)
                   /\ out[2] = Arg(last.named_args, "multiplier", FloatLiteral("1.0"))
                   /\ out[3] = Supplied(1)
                   /\ out[4] = Supplied(2)
                   /\ out[6] = Supplied(3)
              ELSE /\ \A i \in 1..4 : out[i] = Supplied(i - 1)
                   /\ out[6] = Supplied(4)

C2_Witness ==
    /\ IsTransformCall /\ last.sema = "DS_INTRINSIC_DF_MEASURED_EDF" /\ last.ok
    /\ last.n_params = 4 /\ last.named_args
    /\ Len(last.ast.args) = 6 /\ last.ast.args[2].name = "multiplier"

\* C3: spot_edf with 4 arguments a0..a3 yields [a0, pi, a1, a2, a3], the
\* inserted argument named spread under the named convention; with any other
\* argument count the produced call has the supplied arguments only.
C3_SpotEdf ==
    (IsTransformCall /\ last.sema = "DS_INTRINSIC_DF_SPOT_EDF" /\ last.ok) =>
        /\ last.ast.ek = "call"
        /\ IF last.n_params = 4
           THEN last.ast.args =
                   <<Supplied(0), Arg(last.named_args, "spread", FloatLiteral("M_PI")),
                     Supplied(1), Supplied(2), Supplied(3)>>
           ELSE last.ast.args = AllSupplied

C3_Witness ==
    /\ IsTransformCall /\ last.sema = "DS_INTRINSIC_DF_SPOT_EDF" /\ last.ok
    /\ last.n_params = 4 /\ last.named_args
    /\ Len(last.ast.args) = 5 /\ last.ast.args[2].name = "spread"

\* C4: rounded_corner_normal with 2 arguments a0, a1 yields [a0, a1, 1.0], the
\* inserted argument last and named roundness under the named convention;
\* with any other argument count nothing is appended.
C4_RoundedCornerNormal ==
    (IsTransformCall /\ last.sema = "DS_INTRINSIC_STATE_ROUNDED_CORNER_NORMAL"
        /\ last.ok) =>
        /\ last.ast.ek = "call"
        /\ IF last.n_params = 2
           THEN last.ast.args =
                   <<Supplied(0), Supplied(1),
                     Arg(last.named_args, "roundness", FloatLiteral("1.0"))>>
           ELSE last.ast.args = AllSupplied

C4_Witness ==
    /\ IsTransformCall /\ last.sema = "DS_INTRINSIC_STATE_ROUNDED_CORNER_NORMAL"
    /\ last.ok /\ last.n_params = 2 /\ ~last.named_args
    /\ Len(last.ast.args) = 3 /\ last.ast.args[3].expr = FloatLiteral("1.0")

C6_FresnelLayer ==
    (IsTransformCall /\ last.sema = "DS_INTRINSIC_DF_FRESNEL_LAYER" /\ last.ok) =>
        /\ last.ast.ek = "call"
        /\ Len(last.ast.args) = last.n_params
        /\ IF HasMarker(last.callee_name)
           THEN \A i \in 0..(last.n_params - 1) :
                   last.ast.args[i + 1] =
                      IF i = 1
                      THEN Arg(last.named_args, last.args[2].name,
                               ColorOf(SuppliedExpr(1)))
                      ELSE Supplied(i)
           ELSE /\ last.rule = "plain"
                /\ last.ast.args = AllSupplied

C6_Witness ==
    /\ IsTransformCall /\ last.sema = "DS_INTRINSIC_DF_FRESNEL_LAYER" /\ last.ok
    /\ HasMarker(last.callee_name) /\ last.n_params = 3 /\ last.named_args
    /\ last.ast.args[2].expr = ColorOf(IntLiteral(2))

\* C7: in a call produced by a migration rule every supplied argument occurs
\* exactly once, the supplied arguments keep their relative order, and every
\* argument, supplied or inserted, has the caller's convention, the supplied
\* ones keeping their names.
C7_ConventionPreserved ==
    (IsTransformCall /\ last.ok /\ last.rule \in MigrationRules) =>
        LET out == last.ast.args
            Carries(k, i) ==
                /\ out[k].expr \in {SuppliedExpr(i), ColorOf(SuppliedExpr(i))}
                /\ last.named_args => out[k].name = last.args[i + 1].name
            Places(i) == { k \in 1..Len(out) : Carries(k, i) }
            Place(i) == CHOOSE k \in Places(i) : TRUE
        IN /\ \A k \in 1..Len(out) :
                 out[k].ak = (IF last.named_args THEN "named" ELSE "positional")
           /\ \A i \in 0..(last.n_params - 1) : Cardinality(Places(i)) = 1
           /\ \A i, j \in 0..(last.n_params - 1) : i < j => Place(i) < Place(j)

C7_Witness ==
    /\ IsTransformCall /\ last.ok /\ last.rule = "measured_edf_1_1"
    /\ last.named_args /\ Len(last.ast.args) = 6
    /\ \A k \in 1..6 : last.ast.args[k].ak = "named"

\* the reference expression of a callee name
RefTo(name) ==
    [ek |-> "reference", type |-> NoType,
     name |-> [qname |-> create_qualified_name(name), qualifier |-> "none",
               array_size |-> <<>>, incomplete_array |-> FALSE, type |-> NoType]]

\* the plain call of a callee name over the supplied arguments
PlainCallOf(name) ==
    [ek |-> "call", type |-> NoType, callee |-> RefTo(name), args |-> AllSupplied]

\* the name up to its last '$'
WithoutSuffix(name) ==
    IF HasMarker(name)
    THEN SubSeq(name, 1,
             (CHOOSE k \in 1..Len(name) :
                 name[k] = "$" /\ \A m \in (k + 1)..Len(name) : name[m] # "$") - 1)
    ELSE name

IsOldArity ==
    CASE last.sema = "DS_INTRINSIC_DF_MEASURED_EDF" -> last.n_params \in {4, 5}
      [] last.sema = "DS_INTRINSIC_DF_SPOT_EDF" -> last.n_params = 4
      [] last.sema = "DS_INTRINSIC_STATE_ROUNDED_CORNER_NORMAL" -> last.n_params = 2
      [] last.sema \in TexSizeSemantics -> last.n_params = 1
      [] last.sema \in TexTexelSemantics -> last.n_params = 2
      [] OTHER -> FALSE

IsTexSemantic == last.sema \in TexSizeSemantics \cup TexTexelSemantics

\* no migration rule matches: the arity is no old arity of the tag, or the
\* texture argument is not 2-D, or the fresnel_layer name has no marker
NoRuleMatches ==
    IF last.sema = "DS_INTRINSIC_DF_FRESNEL_LAYER"
    THEN ~HasMarker(last.callee_name)
    ELSE ~IsOldArity \/ (IsTexSemantic /\ ~TextureArgIs2d)

\* C8 as stated: a version-sensitive call that no migration rule matches
\* yields the plain call of the unchanged callee name, '$' suffix included.
C8_FallThroughUnchanged ==
    (IsTransformCall /\ last.ok /\ last.sema \in MigratedSemantics /\ NoRuleMatches) =>
        last.ast = PlainCallOf(last.callee_name)

\* C8 amended: as above when the arity is no old arity of the tag or the
\* fresnel_layer name has no marker; a tex call of the old arity whose texture
\* argument is not 2-D yields the supplied arguments only, on the callee name
\* without its '$' suffix.
C8_FallThroughAmended ==
    (IsTransformCall /\ last.ok /\ last.sema \in MigratedSemantics /\ NoRuleMatches) =>
        last.ast = PlainCallOf(IF IsTexSemantic /\ IsOldArity
                               THEN WithoutSuffix(last.callee_name)
                               ELSE last.callee_name)

C8_Witness ==
    /\ IsTransformCall /\ last.ok /\ last.sema = "DS_INTRINSIC_TEX_WIDTH"
    /\ last.n_params = 1 /\ ~TextureArgIs2d /\ last.callee_name = N_f_deprecated
    /\ last.ast = PlainCallOf(N_f)

\* the shape of a produced argument: its convention and what was inserted
ShapeOfArg(a) ==
    [ak |-> a.ak,
     ins |-> CASE a.expr = FloatLiteral("1.0") -> "1.0"
               [] a.expr = FloatLiteral("M_PI") -> "pi"
               [] a.expr = Int2Zero -> "(0,0)"
               [] a.expr.ek = "call" /\ IsTangentUCall(a.expr) -> "tangent_u"
               [] a.expr.ek = "call" /\ a.expr.callee = ColorOf(IntLiteral(0)).callee ->
                     "color"
               [] OTHER -> "supplied"]

ShapeOf(ast) ==
    IF ast.ek = "call" THEN [k \in 1..Len(ast.args) |-> ShapeOfArg(ast.args[k])]
    ELSE <<>>

\* C9 as stated: two transform_call invocations that agree on the semantic,
\* the argument count and the convention produce the same shape, whatever
\* the callee name and the arguments are.
C9_ShapeOfThreeInputs ==
    (IsTransformCall /\ last.ok /\ last.sema \in MigratedSemantics) =>
        \A name2 \in CalleeNames, args2 \in ArgLists :
            Len(args2) = last.n_params =>
                LET r == transform_call(last.ret_type, last.sema, name2,
                             last.n_params, args2, last.named_args, Entry, MaxDepth)
                IN r.st.status = "ok" => ShapeOf(r.ast) = ShapeOf(last.ast)

\* the shape as a function of the semantic, the argument count, the
\* convention, the marker of the name and the 2-D test
ShapeTable(sema, n, named_args, marker, is_2d) ==
    LET conv == IF named_args THEN "named" ELSE "positional"
        s == [ak |-> conv, ins |-> "supplied"]
        D(what) == [ak |-> conv, ins |-> what]
    IN CASE sema = "DS_INTRINSIC_DF_MEASURED_EDF" /\ n = 4 ->
               <<s, D("1.0"), s, s, D("tangent_u"), s>>
         [] sema = "DS_INTRINSIC_DF_MEASURED_EDF" /\ n = 5 ->
               <<s, s, s, s, D("tangent_u"), s>>
         [] sema = "DS_INTRINSIC_DF_FRESNEL_LAYER" /\ marker ->
               [i \in 1..n |-> IF i = 2 THEN D("color") ELSE s]
         [] sema = "DS_INTRINSIC_DF_SPOT_EDF" /\ n = 4 -> <<s, D("pi"), s, s, s>>
         [] sema = "DS_INTRINSIC_STATE_ROUNDED_CORNER_NORMAL" /\ n = 2 ->
               <<s, s, D("1.0")>>
         [] sema \in TexSizeSemantics /\ n = 1 /\ is_2d -> <<s, D("(0,0)")>>
         [] sema \in TexTexelSemantics /\ n = 2 /\ is_2d -> <<s, s, D("(0,0)")>>
         [] OTHER -> [i \in 1..n |-> s]

\* C9 amended: the shape is a function of the semantic, the argument count,
\* the convention and, for fresnel_layer, the presence of the '$' marker in
\* the callee name and, for the tex rules, whether the transformed texture
\* argument carries a 2-D texture type.
C9_ShapeAmended ==
    (IsTransformCall /\ last.ok /\ last.sema \in MigratedSemantics) =>
        ShapeOf(last.ast) =
            ShapeTable(last.sema, last.n_params, last.named_args,
                last.sema = "DS_INTRINSIC_DF_FRESNEL_LAYER"
                    /\ HasMarker(last.callee_name),
                IsTexSemantic /\ TextureArgIs2d)

C9_Witness ==
    /\ IsTransformCall /\ last.ok /\ last.sema = "DS_INTRINSIC_DF_FRESNEL_LAYER"
    /\ HasMarker(last.callee_name) /\ last.n_params = 2 /\ ~last.named_args
    /\ ShapeOf(last.ast)[2].ins = "color"

----------------------------------------------------------------------------
(* Failures and diagnostics *)

\* C11: once an invariant violation (an ASSERT of the builder) has been reached
\* in a tree, transform_expr reports a hard failure and no sub-expression of
\* the tree is transformed afterwards.
C11_ViolationStopsTree ==
    (last.op = "transform_expr" /\ last.violated) =>
        (~last.ok /\ ~last.resumed)

\* the invalid-reference literal of a mapped type
InvalidRefLiteral(tp) == create_literal(create_invalid_ref(tp))

\* C12: transform_value on a texture value with the invalid tag returns the
\* invalid-reference literal of the mapped texture type, emits exactly one
\* diagnostic message, and the pass goes on.
C12_InvalidTagOneDiagnostic ==
    (last.op = "transform_value" /\ last.value.kind = "texture"
        /\ last.value.tag = 0) =>
        /\ last.ok /\ status = "running"
        /\ last.ast = InvalidRefLiteral([tk |-> "texture", shape |-> last.value.type.shape])
        /\ Len(last.diagnostics) = 1

\* the class a resource value expects of the record its tag addresses
ExpectedClass(value) ==
    CASE value.kind = "texture" -> C_Texture
      [] value.kind = "light_profile" -> C_Lightprofile
      [] OTHER -> C_Bsdf_measurement

IsResource(value) == value.kind \in {"texture", "light_profile", "bsdf_measurement"}

\* a value with a valid tag whose record, or whose backing image, is of
\* another kind; Offending is the record concerned
WrongRecord(value) ==
    /\ IsResource(value) /\ value.tag # 0
    /\ get_class_id(value.tag) # ExpectedClass(value)

WrongImage(value) ==
    /\ value.kind = "texture" /\ get_class_id(value.tag) = C_Texture
    /\ Store[value.tag].image # 0
    /\ get_class_id(Store[value.tag].image) # C_Image

Offending(value) == IF WrongImage(value) THEN Store[value.tag].image ELSE value.tag

\* a literal that carries no path
Degraded(ast) ==
    /\ ast.ek = "literal"
    /\ \/ ast.value.vk = "invalid_ref"
       \/ ast.value.vk \in {"texture", "light_profile", "bsdf_measurement"}
            /\ ast.value.url = ""

\* C13: for a texture, its backing image, a light profile and a bsdf
\* measurement alike, a valid tag that addresses a record of another kind
\* gives exactly one diagnostic naming that record and a degraded value
\* without a path, and the pass goes on.
C13_WrongKindOneDiagnostic ==
    (last.op = "transform_value"
        /\ (WrongRecord(last.value) \/ WrongImage(last.value))) =>
        /\ last.ok /\ status = "running"
        /\ Degraded(last.ast)
        /\ Len(last.diagnostics) = 1
        /\ last.diagnostics[1][2] = Offending(last.value)

\* a resource value with a tag whose resolution gave no path
NoPath(value) ==
    /\ IsResource(value) /\ value.tag # 0
    /\ CASE value.kind = "texture" ->
              /\ get_class_id(value.tag) = C_Texture
              /\ \/ Store[value.tag].image = 0
                 \/ WrongImage(value)
                 \/ Store[Store[value.tag].image].filename = ""
         [] OTHER ->
              \/ WrongRecord(value)
              \/ Store[value.tag].filename = ""

\* C14: a resource value with a tag but no path becomes a literal resource
\* value with the empty path, the raw tag id and a hash of the version of the
\* record alone (for a texture, of that and of the version of its image
\* tag), whatever else the session has done before.
C14_TagOnlyLiteral ==
    (last.op = "transform_value" /\ NoPath(last.value)) =>
        /\ last.ast.ek = "literal"
        /\ last.ast.value.vk = last.value.kind
        /\ last.ast.value.url = ""
        /\ last.ast.value.tag = last.value.tag
        /\ last.ast.value.hash =
              IF last.value.kind = "texture"
              THEN get_hash(<<Store[last.value.tag].version,
                              get_tag_version(Store[last.value.tag].image)>>)
              ELSE get_hash(<<Store[last.value.tag].version>>)

C14_Witness ==
    /\ last.op = "transform_value" /\ last.value = V_texture("2d", 6)
    /\ last.ast.ek = "literal" /\ last.ast.value.hash = <<"hash", 6, 2>>

\* a texture value whose record has a backing image with a file
HasFile(value) ==
    /\ value.kind = "texture" /\ get_class_id(value.tag) = C_Texture
    /\ get_class_id(Store[value.tag].image) = C_Image
    /\ Store[Store[value.tag].image].filename # ""

\* the enumerator of ::tex named by a constructor's gamma argument
GammaEnumerator(arg) == arg.expr.name.qname.components[2]

\* C15: the gamma mode is chosen by exact equality with the declared gamma:
\* 1.0 is linear, 2.2 is sRGB, every other value, 1.0000001 included, is
\* default.
C15_GammaExact ==
    (last.op = "transform_value" /\ HasFile(last.value)) =>
        /\ last.ast.ek = "call" /\ Len(last.ast.args) = 2
        /\ GammaEnumerator(last.ast.args[2]) =
              (CASE Store[last.value.tag].gamma = "1.0" ->
                        <<"g", "a", "m", "m", "a", "_", "l", "i", "n", "e", "a", "r">>
                 [] Store[last.value.tag].gamma = "2.2" ->
                        <<"g", "a", "m", "m", "a", "_", "s", "r", "g", "b">>
                 [] OTHER ->
                        <<"g", "a", "m", "m", "a", "_", "d", "e", "f", "a", "u", "l", "t">>)

C15_Witness ==
    /\ last.op = "transform_value" /\ last.value = V_texture("2d", 7)
    /\ Store[7].gamma = "1.0000001"
    /\ GammaEnumerator(last.ast.args[2]) =
           <<"g", "a", "m", "m", "a", "_", "d", "e", "f", "a", "u", "l", "t">>

\* the file a resource value resolves to
ResolvedFile(value) ==
    IF value.kind = "texture" THEN Store[Store[value.tag].image].filename
    ELSE Store[value.tag].filename

FileLiteral(value) ==
    create_positional_argument(create_literal(create_string(ResolvedFile(value))))

\* C16: a texture value that resolves to a file becomes a constructor call on
\* the texture type name with two positional arguments, the file name as a
\* string literal and a typed reference to a gamma enumerator of ::tex; a
\* light profile or bsdf measurement with a file becomes a constructor call
\* with the file name literal as its only argument.
C16_ConstructorCall ==
    /\ (last.op = "transform_value" /\ HasFile(last.value)) =>
          /\ last.ast.ek = "call"
          /\ last.ast.callee = create_reference(create_type_name(last.value.type))
          /\ Len(last.ast.args) = 2
          /\ last.ast.args[1] = FileLiteral(last.value)
          /\ last.ast.args[2].ak = "positional"
          /\ last.ast.args[2].expr.ek = "reference"
          /\ last.ast.args[2].expr.type = [tk |-> "enum", predefined |-> "tex_gamma_mode"]
          /\ Store[last.value.tag].gamma = "2.2" =>
                last.ast.args[2].expr.name.qname.components =
                    <<<<"t", "e", "x">>,
                      <<"g", "a", "m", "m", "a", "_", "s", "r", "g", "b">>>>
    /\ (last.op = "transform_value"
            /\ last.value.kind \in {"light_profile", "bsdf_measurement"}
            /\ get_class_id(last.value.tag) = ExpectedClass(last.value)
            /\ Store[last.value.tag].filename # "") =>
          /\ last.ast.ek = "call"
          /\ last.ast.callee = create_reference(create_type_name(last.value.type))
          /\ last.ast.args = <<FileLiteral(last.value)>>

C16_Witness ==
    /\ last.op = "transform_value" /\ last.value = V_texture("2d", 1)
    /\ last.ast.ek = "call"
    /\ last.ast.args[1].expr.value.s = "wood.png"

----------------------------------------------------------------------------
(* DAG intrinsics *)

IsIntrinsic(sema) ==
    /\ last.op = "transform_expr" /\ last.expr.kind = "call"
    /\ last.expr.mdl_semantic = sema

\* the part of a name after its last '.'
RECURSIVE FinalComponent(_)
FinalComponent(name) ==
    IF find(name, <<".">>, 0) = npos THEN name
    ELSE FinalComponent(substr_from(name, find(name, <<".">>, 0) + 1))

\* C17: the field of a field-access call is the final '.'-delimited component
\* of the unmangled callee name, so that ...mdle::base.surface.scattering(...)
\* selects scattering: the result is the select of the transformed first
\* argument and a reference to that field.
C17_FinalComponentSelected ==
    (IsIntrinsic("DS_INTRINSIC_DAG_FIELD_ACCESS") /\ last.ok) =>
        /\ last.ast.ek = "binary" /\ last.ast.op = "OK_SELECT"
        /\ last.ast.left = create_literal(create_int(20))
        /\ last.ast.right =
              to_reference_sym(FinalComponent(dag_unmangle(last.expr.mdl_name)))

\* C18: array length of an immediate-sized array of size N is the int literal
\* N, of a deferred-sized array named s a reference to s, of anything else an
\* invariant violation; the argument itself is never transformed, so an
\* argument that cannot be transformed makes no difference.
C18_ArrayLength ==
    IsIntrinsic("DS_INTRINSIC_DAG_ARRAY_LENGTH") =>
        LET tp == last.expr.arguments[1].expr.type
        IN /\ ~last.resumed /\ last.diagnostics = <<>>
           /\ tp.kind # "array" =>
                 /\ last.violated /\ last.ast = create_invalid
                 /\ last.ok = ~enable_assert
           /\ (tp.kind = "array" /\ tp.immediate) =>
                 /\ last.ok /\ ~last.violated
                 /\ last.ast = create_literal(create_int(tp.size))
           /\ (tp.kind = "array" /\ ~tp.immediate) =>
                 /\ last.ok /\ ~last.violated
                 /\ last.ast.ek = "reference"
                 /\ last.ast.name.qname.components = <<tp.dsize>>

C18_Witness ==
    /\ IsIntrinsic("DS_INTRINSIC_DAG_ARRAY_LENGTH")
    /\ last.expr.arguments[1].expr.kind = "parameter"
    /\ get_expression(m_args, last.expr.arguments[1].expr.index).kind = "null"
    /\ last.ast = create_literal(create_int(5))

----------------------------------------------------------------------------
(* The session state *)

IsPrefix(s, t) == Len(s) <= Len(t) /\ SubSeq(t, 1, Len(s)) = s

\* a call returning the user struct S has just been transformed by
\* transform_call
UserTypeCallDone(l) ==
    /\ l # NoCall /\ l.op = "transform_expr"
    /\ l.expr.kind \in {"call", "direct_call"}
    /\ l.expr.type = T_S
    /\ l.rule \notin {"bound", "overflow", "invalid"}

\* C19: whatever operation is done, the entries of m_used_user_types stay
\* where they are and new ones come after them; a call returning a user
\* struct appends its symbol even when the symbol is already listed.
C19_UsedTypesMonotonic ==
    [][/\ IsPrefix(m_used_user_types, m_used_user_types')
       /\ UserTypeCallDone(last') =>
             m_used_user_types' = Append(m_used_user_types, S_sym)]_vars

C19_Witness ==
    /\ m_used_user_types = <<S_sym, S_sym>>
    /\ UserTypeCallDone(last)

\* C20: no transformation touches m_param_map; any other step either empties
\* it or binds one expression and keeps every binding of the other
\* expressions.
C20_ParamMapAppendOnly ==
    [][/\ (last' # NoCall /\ last'.op \in {"transform_expr", "transform_call",
                                            "transform_value"}) =>
             m_param_map' = m_param_map
       /\ \/ m_param_map' = m_param_map
          \/ DOMAIN m_param_map' = {}
          \/ \E id \in DOMAIN m_param_map' :
                /\ DOMAIN m_param_map' = DOMAIN m_param_map \cup {id}
                /\ \A other \in DOMAIN m_param_map \ {id} :
                      m_param_map'[other] = m_param_map[other]]_vars

C20_Witness ==
    /\ Cardinality(DOMAIN m_param_map) = 2
    /\ last # NoCall /\ last.op = "transform_expr" /\ last.rule = "bound"

----------------------------------------------------------------------------
(* User types and bound expressions *)

\* transform_call has just been entered, through transform_expr, for a call
\* without arguments
LeafCallDone(l) ==
    /\ l # NoCall /\ l.op = "transform_expr"
    /\ l.expr.kind \in {"call", "direct_call"}
    /\ l.expr.arguments = <<>>
    /\ l.rule \notin {"bound", "overflow", "invalid"}

\* a user-defined struct or a user-defined enum, aliases skipped
IsUserType(type) ==
    \/ skip_all_type_aliases(type).kind = "struct"
          /\ skip_all_type_aliases(type).sid = "user"
    \/ skip_all_type_aliases(type).kind = "enum"
          /\ skip_all_type_aliases(type).eid = "user"

\* C21: transform_call appends the symbol of the return type when that type,
\* aliases skipped, is a user struct or a user enum, and leaves
\* m_used_user_types as it is for a predefined struct and for the predefined
\* enums tex::gamma_mode and intensity_mode.
C21_OnlyUserTypesRecorded ==
    [][LeafCallDone(last') =>
          m_used_user_types' =
              IF IsUserType(last'.expr.type)
              THEN Append(m_used_user_types,
                          skip_all_type_aliases(last'.expr.type).symbol)
              ELSE m_used_user_types]_vars

\* the expression transform_expr has just been given is bound
BoundDone(l) ==
    /\ l # NoCall /\ l.op = "transform_expr"
    /\ l.expr.id \in DOMAIN m_param_map

\* the expression is an unbound parameter reference to a bound top-level
\* argument
BoundArgumentDone(l) ==
    /\ l # NoCall /\ l.op = "transform_expr"
    /\ l.expr.id \notin DOMAIN m_param_map
    /\ l.expr.kind = "parameter"
    /\ get_expression(m_args, l.expr.index).id \in DOMAIN m_param_map

\* nothing but the expression was produced: no ASSERT, no message, no
\* recorded type
NothingElseDone(l) ==
    /\ l.ok /\ ~l.violated /\ ~l.resumed /\ l.diagnostics = <<>>
    /\ UNCHANGED <<m_used_user_types, mod_log, status>>

\* C22: a bound expression of whatever kind becomes the reference to the
\* symbol it is bound to and nothing else is done; the same holds for a
\* bound top-level argument that a parameter reference leads to.
C22_BoundIsReference ==
    [][/\ BoundDone(last') =>
             /\ last'.ast = to_reference_sym(m_param_map[last'.expr.id])
             /\ NothingElseDone(last')
       /\ BoundArgumentDone(last') =>
             /\ last'.ast = to_reference_sym(
                    m_param_map[get_expression(m_args, last'.expr.index).id])
             /\ NothingElseDone(last')]_vars

C22_Witness ==
    /\ BoundDone(last) /\ last.expr.kind = "temporary"
    /\ last.ast.ek = "reference"

----------------------------------------------------------------------------
(* Temporary names *)

TemporaryDone(l) == l # NoCall /\ l.op = "get_temporary_symbol"

DigitValue(c) == CHOOSE d \in 0..9 : unsigned_str(d) = <<c>>

\* the halves of the number a sequence of decimal digits denotes
RECURSIVE ParseHalves(_)
ParseHalves(digits) ==
    IF digits = <<>> THEN <<0, 0>>
    ELSE LET h  == ParseHalves(SubSeq(digits, 1, Len(digits) - 1))
             lo == h[2] * 10 + DigitValue(digits[Len(digits)])
         IN <<h[1] * 10 + lo \div 65536, lo % 65536>>

\* the name is tmp followed by the decimal digits of the counter
NameIsCounter(sym, n) ==
    /\ Len(sym) > 3 /\ SubSeq(sym, 1, 3) = <<"t", "m", "p">>
    /\ ParseHalves(SubSeq(sym, 4, Len(sym))) = halves(n)

\* the unsigned value of a is not above that of b
NotAbove(a, b) ==
    \/ halves(a)[1] < halves(b)[1]
    \/ halves(a)[1] = halves(b)[1] /\ halves(a)[2] <= halves(b)[2]

\* the unsigned value of b is that of a plus one
OneMore(a, b) ==
    \/ halves(a)[2] < 65535 /\ halves(b) = <<halves(a)[1], halves(a)[2] + 1>>
    \/ halves(a)[2] = 65535 /\ halves(a)[1] < 65535
          /\ halves(b) = <<halves(a)[1] + 1, 0>>

\* C23: get_temporary_symbol returns tmp<k>, k the counter, and leaves the
\* counter one higher; the counter never decreases.
C23_CounterNeverDecreases ==
    [][/\ NotAbove(m_tmp_idx, m_tmp_idx')
       /\ TemporaryDone(last') =>
             /\ NameIsCounter(last'.sym, m_tmp_idx)
             /\ OneMore(m_tmp_idx, m_tmp_idx')]_vars

\* C23 (amended): get_temporary_symbol returns tmp<k>, k the counter, and
\* leaves the counter one higher, except that the call made with the counter
\* at 2^32 - 1 leaves it at 0; the counter changes in no other way, so the
\* names of fewer than 2^32 calls in a row are distinct.
C23_CounterWraps ==
    [][IF TemporaryDone(last')
       THEN /\ NameIsCounter(last'.sym, m_tmp_idx)
            /\ IF halves(m_tmp_idx) = <<65535, 65535>>
               THEN m_tmp_idx' = 0
               ELSE OneMore(m_tmp_idx, m_tmp_idx')
       ELSE m_tmp_idx' = m_tmp_idx]_vars

C23_Witness ==
    /\ TemporaryDone(last)
    /\ last.sym = <<"t", "m", "p", "4", "2", "9", "4", "9", "6", "7", "2", "9", "5">>
    /\ m_tmp_idx = 0

----------------------------------------------------------------------------
(* Qualified names *)

RECURSIVE Join(_)
Join(comps) ==
    IF Len(comps) = 0 THEN <<>>
    ELSE IF Len(comps) = 1 THEN comps[1]
    ELSE comps[1] \o <<":", ":">> \o Join(Tail(comps))

StartsWithMarker(name) == Len(name) >= 2 /\ name[1] = ":" /\ name[2] = ":"

HasSeparator(name) == \E i \in 1..(Len(name) - 1) : name[i] = ":" /\ name[i + 1] = ":"

\* C24: create_qualified_name sets the absolute flag exactly for a string that
\* starts with '::' and is longer than it; its components have no '::' in
\* them and, joined with '::', are the string without the marker taken off;
\* create_scope_name gives the same flag and the same components but the last.
C24_QualifiedNameSplit ==
    (last.op = "create_qualified_name") =>
        /\ last.qname.absolute = (StartsWithMarker(last.name) /\ Len(last.name) > 2)
        /\ Len(last.qname.components) >= 1
        /\ \A i \in 1..Len(last.qname.components) :
              ~HasSeparator(last.qname.components[i])
        /\ Join(last.qname.components) =
              IF last.qname.absolute
              THEN SubSeq(last.name, 3, Len(last.name)) ELSE last.name
        /\ last.scope.absolute = last.qname.absolute
        /\ last.scope.components =
              SubSeq(last.qname.components, 1, Len(last.qname.components) - 1)
        /\ ~HasSeparator(last.name) => last.scope.components = <<>>

C24_Witness ==
    /\ last.op = "create_qualified_name"
    /\ last.name = <<":", ":", "a", ":", ":", "b">>
    /\ last.qname = [absolute |-> TRUE, components |-> <<<<"a">>, <<"b">>>>]
    /\ last.scope = [absolute |-> TRUE, components |-> <<<<"a">>>>]

\* transform_expr has just been given an unbound call or direct call
CallExprDone(l) ==
    /\ l # NoCall /\ l.op = "transform_expr"
    /\ l.expr.kind \in {"call", "direct_call"}
    /\ l.expr.id \notin DOMAIN m_param_map

\* the record behind the callee tag is a function call or definition
FunctionRecord(e) ==
    \/ e.kind = "call" /\ e.class_id = "Mdl_function_call"
    \/ e.kind = "direct_call" /\ e.class_id = "Mdl_function_definition"

\* the record behind the callee tag is a material instance or definition
MaterialRecord(e) ==
    \/ e.kind = "call" /\ e.class_id = "Mdl_material_instance"
    \/ e.kind = "direct_call" /\ e.class_id = "Mdl_material_definition"

\* the rewrite l is what the call r of transform_call gives
Delegated(l, r) ==
    /\ l.ast = r.ast /\ l.rule = r.rule
    /\ l.ok = (r.st.status = "ok")
    /\ m_used_user_types' = r.st.used
    /\ mod_log' = r.st.log

\* every argument of the call expression ast follows one convention
AllArguments(ast, ak) ==
    ast.ek = "call" /\ \A i \in 1..Len(ast.args) : ast.args[i].ak = ak

\* C25: an unbound call or direct call is handed to transform_call, with
\* positional arguments and the semantic of the definition when the callee is
\* a function, with named arguments and DS_UNKNOWN when it is a material; a
\* callee of another class gives the invalid expression, transform_call not
\* being entered.
C25_CallDelegation ==
    [][CallExprDone(last') =>
          IF FunctionRecord(last'.expr)
          THEN Delegated(last',
                   transform_call(last'.expr.type, last'.expr.mdl_semantic,
                       dag_unmangle(last'.expr.mdl_name),
                       last'.expr.parameter_count, last'.expr.arguments,
                       FALSE, Entry, MaxDepth - 1))
          ELSE IF MaterialRecord(last'.expr)
          THEN Delegated(last',
                   transform_call(last'.expr.type, "DS_UNKNOWN",
                       dag_unmangle(last'.expr.mdl_name),
                       last'.expr.parameter_count, last'.expr.arguments,
                       TRUE, Entry, MaxDepth - 1))
          ELSE /\ last'.ast = create_invalid
               /\ UNCHANGED <<m_used_user_types, mod_log>>]_vars

C25_Witness ==
    /\ CallExprDone(last) /\ MaterialRecord(last.expr)
    /\ last.expr.mdl_semantic # "DS_UNKNOWN"
    /\ last.ok /\ last.rule = "plain"
    /\ AllArguments(last.ast, "named") /\ Len(last.ast.args) = 2

C25_WitnessFunction ==
    /\ CallExprDone(last) /\ FunctionRecord(last.expr)
    /\ last.ok /\ AllArguments(last.ast, "positional") /\ Len(last.ast.args) >= 1

C25_WitnessOther ==
    /\ CallExprDone(last) /\ last.expr.class_id = "other"
    /\ IsUserType(last.expr.type)

CompoundKinds == {"vector", "matrix", "color", "struct", "array"}

\* the type name a compound value is constructed with
ConstructorName(value) ==
    IF value.kind = "array"
    THEN [create_type_name(value.type.elem) EXCEPT !.incomplete_array = TRUE]
    ELSE create_type_name(value.type)

\* ast is the constructor call of the compound value, element by element,
\* or what transform_value gives for a value that is no compound
RECURSIVE Materializes(_, _)
Materializes(ast, value) ==
    IF value.kind \in CompoundKinds
    THEN /\ ast.ek = "call"
         /\ ast.callee = create_reference(ConstructorName(value))
         /\ Len(ast.args) = Len(value.elems)
         /\ \A i \in 1..Len(value.elems) :
               /\ ast.args[i].ak = "positional"
               /\ Materializes(ast.args[i].expr, value.elems[i])
    ELSE ast = transform_value(value, Entry).ast

\* C26: a vector, matrix, color or struct value of n elements becomes a
\* constructor call on the name of its type, an array value one on the name
\* of its element type marked as an incomplete array; the call has exactly n
\* positional arguments, the i-th being the i-th element materialized in the
\* same way, nested compounds included.
C26_CompoundConstructor ==
    (last.op = "transform_value" /\ last.value.kind \in CompoundKinds) =>
        Materializes(last.ast, last.value)

C26_Witness ==
    /\ last.op = "transform_value" /\ last.ok
    /\ last.value.kind = "array" /\ Len(last.value.elems) = 2
    /\ last.value.elems[1].kind = "struct"
    /\ last.ast.callee.name.incomplete_array
    /\ Len(last.ast.args) = 2
    /\ last.ast.args[2].expr.ek = "call"
    /\ Len(last.ast.args[2].expr.args) = 2
    /\ last.ast.args[2].expr.args[1].expr.args[1].expr =
           create_literal(create_float("2.0"))

C26_WitnessEmpty ==
    /\ last.op = "transform_value" /\ last.ok
    /\ last.value.kind = "array" /\ last.value.elems = <<>>
    /\ last.ast.args = <<>>

\* the indices of the unbound parameter references an expression contains,
\* what lies below a bound expression left out
RECURSIVE UnboundRefs(_)
UnboundRefs(e) ==
    IF e.kind = "null" \/ e.id \in DOMAIN m_param_map THEN {}
    ELSE IF e.kind = "parameter" THEN {e.index}
    ELSE IF e.kind \in {"call", "direct_call"}
    THEN UNION { UnboundRefs(e.arguments[i].expr) : i \in 1..Len(e.arguments) }
    ELSE {}

\* the top-level arguments the top-level argument i refers to
RefersTo(i) ==
    IF i \in 0..(Len(m_args) - 1) THEN UnboundRefs(m_args[i + 1].expr) ELSE {}

RECURSIVE ReachFrom(_, _)
ReachFrom(S, k) ==
    IF k = 0 THEN S ELSE ReachFrom(S \cup UNION { RefersTo(j) : j \in S }, k - 1)

\* no top-level argument refers to itself, directly or through others
AcyclicArgs ==
    \A i \in 0..(Len(m_args) - 1) : i \notin ReachFrom(RefersTo(i), Len(m_args))

\* C27: when no top-level argument contains, directly or through other
\* top-level arguments, an unbound parameter reference to itself,
\* transform_expr comes to an end: the chain of parameter references it
\* follows through m_args does not exhaust the stack.
C27_AcyclicTerminates ==
    (last.op = "transform_expr" /\ AcyclicArgs) =>
        /\ status # "overflow"
        /\ last.rule # "overflow"

C27_Witness ==
    /\ last.op = "transform_expr" /\ AcyclicArgs
    /\ last.expr.kind = "parameter" /\ last.expr.index = 0
    /\ Len(m_args) = 3
    /\ m_args[1].expr.kind = "parameter" /\ m_args[1].expr.index = 1
    /\ m_args[2].expr.kind = "call"
    /\ m_args[3].expr.kind = "constant"
    /\ m_param_map = <<>>
    /\ last.ok
    /\ last.ast.ek = "call"
    /\ last.ast.args[1].expr = create_literal(create_int(3))

\* a reference of an argument to itself is followed until the stack is used up
C27_WitnessCycle ==
    /\ last.op = "transform_expr" /\ ~AcyclicArgs
    /\ m_args[1].expr.kind = "parameter" /\ m_args[1].expr.index = 0
    /\ last.expr.kind = "parameter" /\ last.expr.index = 0
    /\ status = "overflow"

\* a binding of the argument cuts the cycle
C27_WitnessCut ==
    /\ last.op = "transform_expr" /\ AcyclicArgs
    /\ m_args[1].expr.kind = "parameter" /\ m_args[1].expr.index = 0
    /\ last.expr.kind = "parameter" /\ last.expr.index = 0
    /\ last.rule = "bound"

\* the symbol of the type if it is a user struct or a user enum, recorded
TypeSymbol(type) ==
    IF IsUserType(type) THEN <<skip_all_type_aliases(type).symbol>> ELSE <<>>

RECURSIVE Concat(_)
Concat(seqs) == IF seqs = <<>> THEN <<>> ELSE Head(seqs) \o Concat(Tail(seqs))

\* the user types of the calls of an expression in pre-order and from left
\* to right: the return type of a call, then what its arguments give, one
\* after the other; a bound expression gives nothing, a parameter reference
\* what the top-level argument gives
RECURSIVE PreOrder(_)
PreOrder(e) ==
    IF e.kind = "null" \/ e.id \in DOMAIN m_param_map THEN <<>>
    ELSE IF e.kind \in {"call", "direct_call"}
    THEN TypeSymbol(e.type) \o
         Concat([i \in 1..Len(e.arguments) |-> PreOrder(e.arguments[i].expr)])
    ELSE IF e.kind = "parameter" THEN PreOrder(get_expression(m_args, e.index))
    ELSE <<>>

\* no call of the expression returns a predefined enum
RECURSIVE NoPredefinedEnum(_)
NoPredefinedEnum(e) ==
    e.kind \in {"call", "direct_call"} =>
        /\ skip_all_type_aliases(e.type).kind = "enum" => IsUserType(e.type)
        /\ \A i \in 1..Len(e.arguments) : NoPredefinedEnum(e.arguments[i].expr)

\* transform_call has just been entered for the unbound call expression
CallEntered(l) ==
    /\ CallExprDone(l)
    /\ FunctionRecord(l.expr) \/ MaterialRecord(l.expr)
    /\ l.rule # "overflow"

\* C28: the user type a call returns is appended on entry of transform_call,
\* whatever becomes of the call (lowered to an operator, migrated, handled
\* structurally, failed), and so m_used_user_types grows by the user types
\* of the calls visited in pre-order and from left to right.
C28_RecordedInPreOrder ==
    [][(CallEntered(last') /\ NoPredefinedEnum(last'.expr)) =>
          /\ IsPrefix(m_used_user_types \o TypeSymbol(last'.expr.type),
                      m_used_user_types')
          /\ (last'.ok /\ ~last'.violated) =>
                m_used_user_types' = m_used_user_types \o PreOrder(last'.expr)]_vars

C28_Witness ==
    /\ CallEntered(last) /\ last.ok
    /\ last.expr.mdl_semantic = "OK_PLUS" /\ last.rule = "binary"
    /\ Len(last.expr.arguments) = 2
    /\ last.expr.arguments[1].expr.type = T_S
    /\ last.expr.arguments[2].expr.type = T_E
    /\ m_param_map = <<>>
    /\ m_used_user_types = <<S_sym, E_sym>>

C28_WitnessNested ==
    /\ CallEntered(last) /\ last.ok /\ last.rule = "plain"
    /\ last.expr.type = T_E /\ Len(last.expr.arguments) = 1
    /\ last.expr.arguments[1].expr.type = T_S
    /\ m_used_user_types = <<E_sym, S_sym>>

C28_WitnessOperator ==
    CallEntered(last) /\ last.rule = "binary" /\ m_used_user_types = <<S_sym>>

C28_WitnessMigrated ==
    /\ CallEntered(last) /\ last.expr.mdl_semantic = "DS_INTRINSIC_DF_SPOT_EDF"
    /\ last.expr.type = T_S /\ FunctionRecord(last.expr)
    /\ last.rule \notin {"plain", "none"} /\ m_used_user_types = <<S_sym>>

C28_WitnessStructural ==
    CallEntered(last) /\ last.rule = "field_access" /\ m_used_user_types = <<E_sym>>

C28_WitnessFailed ==
    /\ CallEntered(last) /\ (~last.ok \/ last.violated)
    /\ last.expr.type = T_E /\ m_used_user_types = <<E_sym>>

\* the operation a step has just completed
Completed(op) == last' # last /\ last' # NoCall /\ last'.op = op

\* C29: the parts of the session change independently.  A step that changes
\* m_param_map (declare_parameter, remove_parameters) leaves m_tmp_idx and
\* m_used_user_types alone; get_temporary_symbol leaves m_param_map and
\* m_used_user_types alone and is the only step that changes m_tmp_idx;
\* transform_expr and transform_value leave m_param_map, m_tmp_idx and m_args
\* alone.
C29_IndependentParts ==
    [][/\ (m_param_map' # m_param_map) =>
             UNCHANGED <<m_tmp_idx, m_used_user_types>>
       /\ Completed("get_temporary_symbol") =>
             UNCHANGED <<m_param_map, m_used_user_types>>
       /\ (m_tmp_idx' # m_tmp_idx) => Completed("get_temporary_symbol")
       /\ (Completed("transform_expr") \/ Completed("transform_value")) =>
             UNCHANGED <<m_param_map, m_tmp_idx, m_args>>]_vars

C29_Witness ==
    /\ last.op = "get_temporary_symbol"
    /\ m_tmp_idx = 1
    /\ DOMAIN m_param_map # {}

C29_WitnessRemoved ==
    /\ last = NoCall /\ m_tmp_idx = 1 /\ m_used_user_types # <<>> /\ m_param_map = <<>>

C29_WitnessTransform ==
    /\ last.op = "transform_expr" /\ last.rule = "bound"
    /\ m_tmp_idx = 1

\* the value is a texture whose record is a texture without an image, or
\* with an image tag that is no image
NoUsableImage(value) ==
    /\ value.kind = "texture" /\ value.tag \in Tags
    /\ Store[value.tag].class_id = C_Texture
    /\ \/ Store[value.tag].image = 0
       \/ Store[value.tag].image \notin Tags
       \/ Store[Store[value.tag].image].class_id # C_Image

\* C30: a texture whose record has no image tag, or an image tag of another
\* kind, becomes the texture literal without a file whose gamma mode is the
\* default, whatever gamma the record declares, 1.0 and 2.2 included.
C30_FallbackGammaDefault ==
    (last.op = "transform_value" /\ NoUsableImage(last.value)) =>
        /\ last.ast.ek = "literal"
        /\ last.ast.value.vk = "texture"
        /\ last.ast.value.gamma = "gamma_default"

C30_Witness ==
    /\ last.op = "transform_value" /\ NoUsableImage(last.value)
    /\ Store[last.value.tag].gamma = "2.2"
    /\ Store[last.value.tag].image # 0
    /\ last.diagnostics # <<>>
    /\ last.ast.value.gamma = "gamma_default"

C30_WitnessNoImage ==
    /\ last.op = "transform_value" /\ NoUsableImage(last.value)
    /\ Store[last.value.tag].gamma = "2.2"
    /\ Store[last.value.tag].image = 0
    /\ last.ast.value.gamma = "gamma_default"

C30_WitnessLinear ==
    /\ last.op = "transform_value" /\ NoUsableImage(last.value)
    /\ Store[last.value.tag].gamma = "1.0"
    /\ last.ast.value.gamma = "gamma_default"

====
